---------------------------- MODULE Spec2Model ----------------------------
(***************************************************************************)
(* aquiferx: the import wizard (DataManager), its cross-reference          *)
(* validator and its canonical exporter.                                   *)
(*                                                                         *)
(* Conventions.  A JavaScript string is a sequence of one-character        *)
(* strings (<<>> is ''), so that slugs, dates and column names are         *)
(* computed character by character as the code computes them.  Keys of the *)
(* program (mapping targets, file kinds, format tags, message kinds) are   *)
(* TLA+ strings.  A GeoJSON property value is a tagged value (JsStr,       *)
(* JsNum, JsUndef) with JavaScript truthiness and String() conversion.     *)
(* Display-only state (logs, regionNameError) is left out: no handler      *)
(* reads it.                                                               *)
(***************************************************************************)
EXTENDS Integers, Sequences, FiniteSets, TLC

VARIABLES
  step,               \* useState(1): wizard step 1..6
  regionName,         \* useState(''): the operator-supplied region name
  regionFile,         \* useState<UploadedFile | null>
  aquiferFile,
  wellsFile,
  waterLevelsFile,
  dateFormat,         \* useState('iso')
  showColumnMapper,   \* useState(false)
  currentMappingFile, \* useState(null): 'region'|'aquifer'|'wells'|'waterLevels'|null
  validation,         \* useState<ValidationResult | null>
  isProcessing,       \* useState(false)
  zipFile,            \* useState(null): the bundle offered for download
  runs,               \* processData calls suspended at an await (their locals)
  uploads,            \* handleFileUpload calls suspended on the file read
  served,             \* /data/regions.json as the server holds it
  existingRegions,    \* the existingRegions prop: region ids the App loaded
  call,               \* a helper function being applied: its name and arguments
  ret                 \* << >> until the helper returns, then << its value >>

\* the wizard's state
wizard == << step, regionName, regionFile, aquiferFile, wellsFile,
             waterLevelsFile, dateFormat, showColumnMapper, currentMappingFile,
             validation, isProcessing, zipFile, runs, uploads, served,
             existingRegions >>

\* the frame of a helper applied on its own
frame == << call, ret >>

vars == << wizard, frame >>
NoCall == [fn |-> "none"]

(***************************************************************************)
(* Bounds of the model.                                                    *)
(***************************************************************************)
MaxWells == 2       \* rows of an uploaded wells table
MaxLevels == 2      \* rows of an uploaded water-levels table
MaxAquifers == 1    \* features of an uploaded aquifer collection
MaxRuns == 1        \* processData calls in flight together
MaxUploads == 1     \* handleFileUpload calls in flight together
MaxRegions == 2     \* entries the served manifest may grow to

(***************************************************************************)
(* JavaScript strings and values.                                          *)
(***************************************************************************)
Empty == << >>

UpperLetters == << "A","B","C","D","E","F","G","H","I","J","K","L","M",
                   "N","O","P","Q","R","S","T","U","V","W","X","Y","Z" >>
LowerLetters == << "a","b","c","d","e","f","g","h","i","j","k","l","m",
                   "n","o","p","q","r","s","t","u","v","w","x","y","z" >>
Digits == { "0","1","2","3","4","5","6","7","8","9" }

SeqRange(s) == { s[i] : i \in DOMAIN s }

\* String.prototype.toLowerCase, one character
LowerChar(c) ==
  IF \E i \in DOMAIN UpperLetters : UpperLetters[i] = c
  THEN LowerLetters[CHOOSE i \in DOMAIN UpperLetters : UpperLetters[i] = c]
  ELSE c

ToLowerCase(s) == [ i \in DOMAIN s |-> LowerChar(s[i]) ]

\* the character class [a-z0-9]
IsSlugChar(c) == c \in SeqRange(LowerLetters) \cup Digits

\* String.prototype.includes
Includes(s, sub) ==
  \E i \in 0..(Len(s) - Len(sub)) : SubSeq(s, i + 1, i + Len(sub)) = sub

\* String.prototype.trim is needed only for emptiness: is any character not a blank
IsBlank(s) == \A i \in DOMAIN s : s[i] = " "

JsUndef == [k |-> "undef", s |-> Empty]
JsStr(s) == [k |-> "str", s |-> s]
JsNum(s) == [k |-> "num", s |-> s]     \* s is the decimal rendering of the number

\* JavaScript truthiness: '' and 0 and undefined are falsy
Truthy(v) ==
  \/ v.k = "str" /\ v.s # Empty
  \/ v.k = "num" /\ v.s # << "0" >>

\* String(v) for a string or a number
JsToString(v) == v.s

\* v || ''
OrEmpty(v) == IF Truthy(v) THEN v ELSE JsStr(Empty)

(***************************************************************************)
(* getFolderName: name.toLowerCase().replace(/[^a-z0-9]+/g, '-')           *)
(*                    .replace(/^-|-$/g, '')                               *)
(***************************************************************************)
RECURSIVE SkipNonSlug(_)
SkipNonSlug(s) ==
  IF s = Empty \/ IsSlugChar(Head(s)) THEN s ELSE SkipNonSlug(Tail(s))

RECURSIVE CollapseRuns(_)
CollapseRuns(s) ==
  IF s = Empty THEN Empty
  ELSE IF IsSlugChar(Head(s)) THEN << Head(s) >> \o CollapseRuns(Tail(s))
  ELSE << "-" >> \o CollapseRuns(SkipNonSlug(Tail(s)))

\* one leading hyphen removed, a trailing one kept
TrimLeadingHyphen(s) == IF s # Empty /\ Head(s) = "-" THEN Tail(s) ELSE s

TrimHyphens(s) ==
  LET a == IF s # Empty /\ Head(s) = "-" THEN Tail(s) ELSE s
  IN  IF a # Empty /\ a[Len(a)] = "-" THEN SubSeq(a, 1, Len(a) - 1) ELSE a

getFolderName(name) == TrimHyphens(CollapseRuns(ToLowerCase(name)))

(***************************************************************************)
(* parseDate                                                               *)
(***************************************************************************)
\* split on hyphens and slashes alike, whatever the separator asked for
RECURSIVE SplitOnEither(_, _)
SplitOnEither(s, sep) ==
  IF \A i \in DOMAIN s : s[i] \notin { "-", "/" } THEN << s >>
  ELSE LET k == CHOOSE i \in DOMAIN s :
                  s[i] \in { "-", "/" } /\ \A j \in 1..(i - 1) : s[j] \notin { "-", "/" }
       IN  << SubSeq(s, 1, k - 1) >> \o SplitOnEither(SubSeq(s, k + 1, Len(s)), sep)

RECURSIVE Split(_, _)
Split(s, sep) ==
  IF \A i \in DOMAIN s : s[i] # sep THEN << s >>
  ELSE LET k == CHOOSE i \in DOMAIN s :
                  s[i] = sep /\ \A j \in 1..(i - 1) : s[j] # sep
       IN  << SubSeq(s, 1, k - 1) >> \o Split(SubSeq(s, k + 1, Len(s)), sep)

\* padStart(2, '0')
RECURSIVE PadStart2(_)
PadStart2(s) == IF Len(s) >= 2 THEN s ELSE PadStart2(<< "0" >> \o s)

\* the year taken as written
YearAsWritten(p) == p

ExpandYear(p) == IF Len(p) = 2 THEN << "2", "0" >> \o p ELSE p

DateFormats == { "iso", "us", "eu", "us-short", "eu-short" }

parseDate(dateStr, format) ==
  IF dateStr = Empty THEN Empty
  ELSE IF format = "iso" THEN dateStr
  ELSE IF format \in { "us", "us-short" } THEN
    LET parts == Split(dateStr, "/")
    IN  IF Len(parts) = 3
        THEN ExpandYear(parts[3]) \o << "-" >> \o PadStart2(parts[1])
               \o << "-" >> \o PadStart2(parts[2])
        ELSE dateStr
  ELSE IF format \in { "eu", "eu-short" } THEN
    LET parts == Split(dateStr, "/")
    IN  IF Len(parts) = 3
        THEN ExpandYear(parts[3]) \o << "-" >> \o PadStart2(parts[2])
               \o << "-" >> \o PadStart2(parts[1])
        ELSE dateStr
  ELSE dateStr


(***************************************************************************)
(* Uploaded files.  data of a 'csv' file is the row sequence of parseCSV   *)
(* (each row maps every header to a string); data of a 'geojson' file is a *)
(* FeatureCollection or a single Feature.  mapping maps each target key of *)
(* the file kind to a column name, Empty when the key is unset.            *)
(***************************************************************************)
NoFile == [type |-> "none"]

UploadedFile(type, data, columns, mapping) ==
  [type |-> type, data |-> data, columns |-> columns, mapping |-> mapping]

Feature(properties, geometry) ==
  [type |-> "Feature", properties |-> properties, geometry |-> geometry]

FeatureCollection(features) ==
  [type |-> "FeatureCollection", features |-> features]

\* data.type === 'FeatureCollection' ? data.features : [data]
FeaturesOf(data) ==
  IF data.type = "FeatureCollection" THEN data.features ELSE << data >>

\* feature.properties?.[column]
Prop(f, column) ==
  IF column \in DOMAIN f.properties THEN f.properties[column] ELSE JsUndef

\* file.mapping[key]
MappingOf(file, key) ==
  IF key \in DOMAIN file.mapping THEN file.mapping[key] ELSE Empty

\* column names and words the synonym rules look for
sWell == << "w","e","l","l" >>
sId == << "i","d" >>
sWellId == << "w","e","l","l","_","i","d" >>
sLat == << "l","a","t" >>
sLatitude == << "l","a","t","i","t","u","d","e" >>
sLatDec == << "l","a","t","_","d","e","c" >>
sLong == << "l","o","n","g" >>
sLng == << "l","n","g" >>
sLongitude == << "l","o","n","g","i","t","u","d","e" >>
sLongDec == << "l","o","n","g","_","d","e","c" >>
sAquifer == << "a","q","u","i","f","e","r" >>
sAquiferId == << "a","q","u","i","f","e","r","_","i","d" >>
sAquiferName == << "a","q","u","i","f","e","r","_","n","a","m","e" >>
sName == << "n","a","m","e" >>
sFullName == << "f","u","l","l","_","n","a","m","e" >>
sDate == << "d","a","t","e" >>
sWte == << "w","t","e" >>
sElevation == << "e","l","e","v","a","t","i","o","n" >>
sLevel == << "l","e","v","e","l" >>

(***************************************************************************)
(* autoMapColumns                                                          *)
(***************************************************************************)
\* columns.map(c => c.toLowerCase()), as a set
lowerColumns(columns) == { ToLowerCase(columns[i]) : i \in DOMAIN columns }

\* the last column a rule accepts
LastColumn(columns, matching) ==
  LET hits == { i \in DOMAIN columns : ToLowerCase(columns[i]) \in matching }
  IN  IF hits = {} THEN Empty
      ELSE columns[CHOOSE i \in hits : \A j \in hits : j <= i]

\* columns[lowerColumns.findIndex(rule)], Empty when findIndex gives -1;
\* matching: the lowered column names the rule accepts
FirstColumn(columns, matching) ==
  LET hits == { i \in DOMAIN columns : ToLowerCase(columns[i]) \in matching }
  IN  IF hits = {} THEN Empty
      ELSE columns[CHOOSE i \in hits : \A j \in hits : i <= j]

RuleAquiferIdOfAquifer(c) ==
  (Includes(c, sAquifer) /\ Includes(c, sId)) \/ c = sAquiferId \/ c = sId
RuleAquiferName(c) ==
  (Includes(c, sAquifer) /\ Includes(c, sName)) \/ c = sAquiferName
    \/ c = sName \/ c = sFullName
RuleWellId(c) == (Includes(c, sWell) /\ Includes(c, sId)) \/ c = sWellId
RuleLat(c) == c = sLat \/ Includes(c, sLatitude) \/ c = sLatDec
RuleLong(c) ==
  c = sLong \/ c = sLng \/ Includes(c, sLongitude) \/ c = sLongDec
RuleAquiferId(c) == (Includes(c, sAquifer) /\ Includes(c, sId)) \/ c = sAquiferId
RuleDate(c) == c = sDate \/ Includes(c, sDate)
RuleWte(c) == c = sWte \/ Includes(c, sElevation) \/ Includes(c, sLevel)

autoMapColumns(columns, fileType) ==
  LET lc == lowerColumns(columns)
      first(matching) == FirstColumn(columns, matching)
  IN  CASE fileType = "aquifer" ->
             [ aquifer_id |-> first({ c \in lc : RuleAquiferIdOfAquifer(c) }),
               aquifer_name |-> first({ c \in lc : RuleAquiferName(c) }) ]
        [] fileType = "wells" ->
             [ well_id |-> first({ c \in lc : RuleWellId(c) }),
               lat |-> first({ c \in lc : RuleLat(c) }),
               long |-> first({ c \in lc : RuleLong(c) }),
               aquifer_id |-> first({ c \in lc : RuleAquiferId(c) }) ]
        [] fileType = "waterLevels" ->
             [ well_id |-> first({ c \in lc : RuleWellId(c) }),
               date |-> first({ c \in lc : RuleDate(c) }),
               wte |-> first({ c \in lc : RuleWte(c) }),
               aquifer_id |-> first({ c \in lc : RuleAquiferId(c) }) ]
        [] OTHER -> << >>

(***************************************************************************)
(* getRequiredColumns                                                      *)
(***************************************************************************)
getRequiredColumns(fileType) ==
  CASE fileType = "aquifer" ->
         << [key |-> "aquifer_id", label |-> "Aquifer ID", required |-> TRUE],
            [key |-> "aquifer_name", label |-> "Aquifer Name", required |-> TRUE] >>
    [] fileType = "wells" ->
         << [key |-> "well_id", label |-> "Well ID", required |-> TRUE],
            [key |-> "lat", label |-> "Latitude", required |-> TRUE],
            [key |-> "long", label |-> "Longitude", required |-> TRUE],
            [key |-> "aquifer_id", label |-> "Aquifer ID", required |-> FALSE] >>
    [] fileType = "waterLevels" ->
         << [key |-> "well_id", label |-> "Well ID", required |-> TRUE],
            [key |-> "date", label |-> "Date", required |-> TRUE],
            [key |-> "wte", label |-> "Water Table Elevation", required |-> TRUE],
            [key |-> "aquifer_id", label |-> "Aquifer ID", required |-> FALSE] >>
    [] OTHER -> << >>

IsRequired(col) == col.required

(***************************************************************************)
(* validateData.  A message is a record: kind names the template, a and b  *)
(* its two interpolated values.                                            *)
(***************************************************************************)
Message(kind, a, b) == [kind |-> kind, a |-> a, b |-> b]

\* if (!regionFile) errors.push(...), and so on for the four files
MissingFileErrors(rf, af, wf, lf) ==
  (IF rf = NoFile THEN << Message("fileRequired", << "region" >>, Empty) >> ELSE << >>)
  \o (IF af = NoFile THEN << Message("fileRequired", << "aquifer" >>, Empty) >> ELSE << >>)
  \o (IF wf = NoFile THEN << Message("fileRequired", << "wells" >>, Empty) >> ELSE << >>)
  \o (IF lf = NoFile THEN << Message("fileRequired", << "waterLevels" >>, Empty) >> ELSE << >>)

\* checkMapping without its filter(c => c.required)
checkMappingEveryColumn(file, fileType) ==
  LET unset(col) == MappingOf(file, col.key) = Empty
      missing == SelectSeq(getRequiredColumns(fileType), unset)
  IN  [ i \in DOMAIN missing |->
          Message("missingMapping", << fileType >>, << missing[i].label >>) ]

\* checkMapping(file, fileType)
checkMapping(file, fileType) ==
  LET required == SelectSeq(getRequiredColumns(fileType), IsRequired)
      unset(col) == MappingOf(file, col.key) = Empty
      missing == SelectSeq(required, unset)
  IN  [ i \in DOMAIN missing |->
          Message("missingMapping", << fileType >>, << missing[i].label >>) ]

MissingMappingErrors(af, wf, lf) ==
  checkMapping(af, "aquifer") \o checkMapping(wf, "wells")
    \o checkMapping(lf, "waterLevels")

\* aquiferIds read from the canonical property name instead of the mapping
AquiferIdSetUnmapped(af) ==
  LET features == FeaturesOf(af.data)
  IN  { JsToString(Prop(features[i], sAquiferId)) :
          i \in { j \in DOMAIN features : Truthy(Prop(features[j], sAquiferId)) } }

\* the aquiferIds set
AquiferIdSet(af) ==
  LET features == FeaturesOf(af.data)
      column == MappingOf(af, "aquifer_id")
  IN  { JsToString(Prop(features[i], column)) :
          i \in { j \in DOMAIN features : Truthy(Prop(features[j], column)) } }

\* wellIds without the if (wellId) guard
WellIdSetKeepingEmpty(wf) ==
  { wf.data[i][MappingOf(wf, "well_id")] : i \in DOMAIN wf.data }

\* the wellIds set
WellIdSet(wf) ==
  LET wellIdCol == MappingOf(wf, "well_id")
  IN  { wf.data[i][wellIdCol] : i \in DOMAIN wf.data } \ { Empty }

\* one error per well row whose aquifer reference is not in aquiferIds
WellAquiferErrors(wf, aquiferIds) ==
  LET wellIdCol == MappingOf(wf, "well_id")
      wellAqIdCol == MappingOf(wf, "aquifer_id")
      offending(well) ==
        /\ wellAqIdCol # Empty
        /\ well[wellAqIdCol] # Empty
        /\ well[wellAqIdCol] \notin aquiferIds
      bad == SelectSeq(wf.data, offending)
  IN  [ i \in DOMAIN bad |->
          Message("wellAquifer", bad[i][wellIdCol], bad[i][wellAqIdCol]) ]

\* the warning pushed whatever the wells mapping holds
AquiferColumnWarningsAlways(wf) == << [kind |-> "noAquiferColumn", n |-> 0] >>

\* warning when the wells mapping has no aquifer_id column
AquiferColumnWarnings(wf) ==
  IF MappingOf(wf, "aquifer_id") = Empty
  THEN << [kind |-> "noAquiferColumn", n |-> 0] >> ELSE << >>

\* the droppedMeasurements counter
DroppedCount(lf, wellIds) ==
  LET wlWellIdCol == MappingOf(lf, "well_id")
      unknown(m) == m[wlWellIdCol] \notin wellIds
  IN  Len(SelectSeq(lf.data, unknown))

DroppedWarnings(n) ==
  IF n > 0 THEN << [kind |-> "dropped", n |-> n] >> ELSE << >>

\* isValid that also asks for no warnings
IsValidFlagNoWarnings(errors, warnings) == errors = << >> /\ warnings = << >>

\* isValid: errors.length === 0
IsValidFlag(errors, warnings) == errors = << >>

ValidationResult(errors, warnings, dropped) ==
  [ isValid |-> IsValidFlag(errors, warnings), errors |-> errors,
    warnings |-> warnings, droppedMeasurements |-> dropped ]

ReferentialChecks(af, wf, lf) ==
  LET errors == WellAquiferErrors(wf, AquiferIdSet(af))
      dropped == DroppedCount(lf, WellIdSet(wf))
  IN  ValidationResult(errors,
                       AquiferColumnWarnings(wf) \o DroppedWarnings(dropped),
                       dropped)

\* return { isValid: false, errors, warnings, droppedMeasurements } before
\* anything was pushed to warnings or counted
EarlyReturn(errors) ==
  [ isValid |-> FALSE, errors |-> errors, warnings |-> << >>,
    droppedMeasurements |-> 0 ]

validateData(rf, af, wf, lf) ==
  IF MissingFileErrors(rf, af, wf, lf) # << >>
  THEN EarlyReturn(MissingFileErrors(rf, af, wf, lf))
  ELSE IF MissingMappingErrors(af, wf, lf) # << >>
  THEN EarlyReturn(MissingMappingErrors(af, wf, lf))
  ELSE ReferentialChecks(af, wf, lf)

NoValidation == [none |-> TRUE]

(***************************************************************************)
(* processData, up to its first await: the canonical documents and tables. *)
(* A table is the sequence of its rows; the CSV text joins each row's four *)
(* fields with commas under the fixed header.                              *)
(***************************************************************************)
processedRegion(rf, name) ==
  LET features == FeaturesOf(rf.data)
  IN  [ i \in DOMAIN features |->
          [ region_id |-> getFolderName(name), region_name |-> name,
            geometry |-> features[i].geometry ] ]

processedAquifers(af) ==
  LET features == FeaturesOf(af.data)
  IN  [ i \in DOMAIN features |->
          [ aquifer_id |->
              JsToString(OrEmpty(Prop(features[i], MappingOf(af, "aquifer_id")))),
            aquifer_name |->
              OrEmpty(Prop(features[i], MappingOf(af, "aquifer_name"))),
            geometry |-> features[i].geometry ] ]

WellRowComplete(w) == w.well_id # Empty /\ w.lat # Empty /\ w.long # Empty

processedWells(wf) ==
  LET wellAqIdCol == MappingOf(wf, "aquifer_id")
      mapped == [ i \in DOMAIN wf.data |->
                   [ well_id |-> wf.data[i][MappingOf(wf, "well_id")],
                     lat |-> wf.data[i][MappingOf(wf, "lat")],
                     long |-> wf.data[i][MappingOf(wf, "long")],
                     aquifer_id |-> IF wellAqIdCol # Empty
                                    THEN wf.data[i][wellAqIdCol] ELSE Empty ] ]
  IN  SelectSeq(mapped, WellRowComplete)

\* the export filter fed with every non-empty well id of the upload
ExportWellIdSetUnfiltered(wf) ==
  { wf.data[i][MappingOf(wf, "well_id")] : i \in DOMAIN wf.data } \ { Empty }

\* new Set(processedWells.map(w => w.well_id))
ExportWellIdSet(wf) ==
  { processedWells(wf)[i].well_id : i \in DOMAIN processedWells(wf) }

processedWaterLevels(lf, wellIdSet, format) ==
  LET wlAqIdCol == MappingOf(lf, "aquifer_id")
      known(m) == m[MappingOf(lf, "well_id")] \in wellIdSet
      kept == SelectSeq(lf.data, known)
  IN  [ i \in DOMAIN kept |->
          [ well_id |-> kept[i][MappingOf(lf, "well_id")],
            date |-> parseDate(kept[i][MappingOf(lf, "date")], format),
            wte |-> kept[i][MappingOf(lf, "wte")],
            aquifer_id |-> IF wlAqIdCol # Empty
                           THEN kept[i][wlAqIdCol] ELSE Empty ] ]

(***************************************************************************)
(* The manifest merge                                                      *)
(***************************************************************************)
ManifestEntry(folderName, name) ==
  [ id |-> folderName, path |-> << "/","d","a","t","a","/" >> \o folderName,
    name |-> name ]

\* a merge that pushes the entry without looking for its id
MergeManifestAlwaysPush(manifest, folderName, name) ==
  Append(manifest, ManifestEntry(folderName, name))

\* if (!regionsManifest.find(r => r.id === folderName)) regionsManifest.push(...)
MergeManifest(manifest, folderName, name) ==
  IF \E i \in DOMAIN manifest : manifest[i].id = folderName
  THEN manifest
  ELSE Append(manifest, ManifestEntry(folderName, name))

\* what fetch('/data/regions.json') and response.json() can yield
FetchOutcomes == { "ok", "networkError", "notOk", "invalidJson", "notAList" }

NoBundle == [none |-> TRUE]

\* the locals of a processData call suspended on the manifest fetch
StartedRun(result) ==
  [ pc |-> "fetch",
    result |-> result,
    folderName |-> getFolderName(regionName),
    regionName |-> regionName,
    region |-> processedRegion(regionFile, regionName),
    aquifers |-> processedAquifers(aquiferFile),
    wells |-> processedWells(wellsFile),
    water_levels |-> processedWaterLevels(waterLevelsFile,
                        ExportWellIdSet(wellsFile), dateFormat),
    uploadedLevels |-> Len(waterLevelsFile.data),
    regionsManifest |-> << >> ]

\* the zip built from the files, mappings, date format and name as they are
\* when zip.generateAsync settles
BundleOfCurrent(run) ==
  [ name |-> run.folderName \o << ".","z","i","p" >>,
    folder |-> run.folderName,
    region |-> processedRegion(regionFile, regionName),
    aquifers |-> processedAquifers(aquiferFile),
    wells |-> processedWells(wellsFile),
    water_levels |-> processedWaterLevels(waterLevelsFile,
                        ExportWellIdSet(wellsFile), dateFormat),
    manifest |-> run.regionsManifest ]

\* the zip: four files in the region folder and regions.json at the root
BundleOf(run) ==
  [ name |-> run.folderName \o << ".","z","i","p" >>,
    folder |-> run.folderName,
    region |-> run.region,
    aquifers |-> run.aquifers,
    wells |-> run.wells,
    water_levels |-> run.water_levels,
    manifest |-> run.regionsManifest ]

RemoveAt(seq, i) == SubSeq(seq, 1, i - 1) \o SubSeq(seq, i + 1, Len(seq))

(***************************************************************************)
(* processData: the click, and the two resumptions                         *)
(***************************************************************************)
\* renderColumnMapper returns the modal
MapperShown ==
  /\ showColumnMapper
  /\ currentMappingFile # "none"
  /\ currentMappingFile = "region" => regionFile # NoFile
  /\ currentMappingFile = "aquifer" => aquiferFile # NoFile
  /\ currentMappingFile = "wells" => wellsFile # NoFile
  /\ currentMappingFile = "waterLevels" => waterLevelsFile # NoFile

\* the modal is a fixed full-screen layer above the wizard (z-[110] over
\* z-[100]): while it is rendered no control of the wizard takes a click
Overlaid == MapperShown

\* disabled={!waterLevelsFile || isProcessing}, rendered at step 5
ProcessEnabled ==
  step = 5 /\ waterLevelsFile # NoFile /\ ~isProcessing /\ ~Overlaid

\* a processData that goes on to export whatever the validation says
BlocksExportNever(result) == FALSE

\* if (!result.isValid) { ...; setIsProcessing(false); return; }
BlocksExport(result) == ~result.isValid

ProcessData ==
  /\ ProcessEnabled
  /\ Len(runs) < MaxRuns
  /\ LET result == validateData(regionFile, aquiferFile, wellsFile, waterLevelsFile)
     IN  /\ validation' = result
         /\ IF BlocksExport(result)
            THEN /\ isProcessing' = FALSE
                 /\ runs' = runs
            ELSE /\ isProcessing' = TRUE
                 /\ runs' = Append(runs, StartedRun(result))
  /\ UNCHANGED << step, regionName, regionFile, aquiferFile, wellsFile,
                  waterLevelsFile, dateFormat, showColumnMapper,
                  currentMappingFile, zipFile, uploads, served, existingRegions >>
  /\ UNCHANGED frame

\* the fetch and response.json() settle; the merge and the zip.file calls follow
\* at once.  A JSON value that is no array has no find: the TypeError lands in
\* the outer catch, and the call returns after setIsProcessing(false).
FetchSettles(i, outcome) ==
  /\ i \in DOMAIN runs
  /\ runs[i].pc = "fetch"
  /\ outcome \in FetchOutcomes
  /\ IF outcome = "notAList"
     THEN /\ runs' = RemoveAt(runs, i)
          /\ isProcessing' = FALSE
     ELSE /\ runs' = [ runs EXCEPT
                 ![i].pc = "zip",
                 ![i].regionsManifest =
                    MergeManifest(IF outcome = "ok" THEN served ELSE << >>,
                                  runs[i].folderName, runs[i].regionName) ]
          /\ UNCHANGED isProcessing
  /\ UNCHANGED << step, regionName, regionFile, aquiferFile, wellsFile,
                  waterLevelsFile, dateFormat, showColumnMapper,
                  currentMappingFile, validation, zipFile, uploads, served,
                  existingRegions >>
  /\ UNCHANGED frame

\* zip.generateAsync settles: setZipFile, setStep(6), setIsProcessing(false)
ZipSettles(i) ==
  /\ i \in DOMAIN runs
  /\ runs[i].pc = "zip"
  /\ zipFile' = BundleOf(runs[i])
  /\ step' = 6
  /\ isProcessing' = FALSE
  /\ runs' = RemoveAt(runs, i)
  /\ UNCHANGED << regionName, regionFile, aquiferFile, wellsFile,
                  waterLevelsFile, dateFormat, showColumnMapper,
                  currentMappingFile, validation, uploads, served,
                  existingRegions >>
  /\ UNCHANGED frame

\* the Done button of the mapper
CloseMapper ==
  /\ MapperShown
  /\ showColumnMapper' = FALSE
  /\ UNCHANGED << step, regionName, regionFile, aquiferFile, wellsFile,
                  waterLevelsFile, dateFormat, currentMappingFile, validation,
                  isProcessing, zipFile, runs, uploads, served,
                  existingRegions >>
  /\ UNCHANGED frame

\* the Date Format select of the water-levels mapper
SetDateFormat(format) ==
  /\ MapperShown
  /\ currentMappingFile = "waterLevels"
  /\ format \in DateFormats
  /\ format # dateFormat
  /\ dateFormat' = format
  /\ UNCHANGED << step, regionName, regionFile, aquiferFile, wellsFile,
                  waterLevelsFile, showColumnMapper, currentMappingFile,
                  validation, isProcessing, zipFile, runs, uploads, served,
                  existingRegions >>
  /\ UNCHANGED frame

\* validateData applied to the component's state, result kept in validation
ValidateDataCall ==
  /\ runs = << >>
  /\ validation = NoValidation
  /\ validation' = validateData(regionFile, aquiferFile, wellsFile, waterLevelsFile)
  /\ UNCHANGED << step, regionName, regionFile, aquiferFile, wellsFile,
                  waterLevelsFile, dateFormat, showColumnMapper,
                  currentMappingFile, isProcessing, zipFile, runs, uploads,
                  served, existingRegions >>
  /\ UNCHANGED frame

(***************************************************************************)
(* Inputs: the uploads the model draws from.                               *)
(***************************************************************************)
SeqsUpTo(S, n) == UNION { [1..k -> S] : k \in 0..n }

WellsColumns == << sWellId, sLat, sLong, sAquiferId >>
LevelsColumns == << sWellId, sDate, sWte, sAquiferId >>
AquiferColumns == << sAquiferId, sName >>

WellRow(id, lat, long, aq) ==
  (sWellId :> id) @@ (sLat :> lat) @@ (sLong :> long) @@ (sAquiferId :> aq)
LevelRow(id, date, wte, aq) ==
  (sWellId :> id) @@ (sDate :> date) @@ (sWte :> wte) @@ (sAquiferId :> aq)
AquiferFeature(id, name) ==
  Feature((sAquiferId :> id) @@ (sName :> name), "polygon")

WellIdVals == { Empty, << "A" >>, << "B" >> }
\* lat and long of a wells row: both given, or one of them empty
CoordPairs ==
  { << << "1" >>, << "1" >> >>, << Empty, << "1" >> >>, << << "1" >>, Empty >> }
AqRefVals == { Empty, << "X" >>, << "0" >> }
AqIdVals == { JsUndef, JsStr(<< "X" >>), JsNum(<< "0" >>) }

aDate == << "1","/","5","/","0","9" >>
aWte == << "7" >>
aName == JsStr(<< "N" >>)

RegionUpload ==
  UploadedFile("geojson", FeatureCollection(<< Feature(<< >>, "polygon") >>),
               << >>, << >>)
AquiferUpload(data, mapping) ==
  UploadedFile("geojson", data, AquiferColumns, mapping)
WellsUpload(rows, mapping) == UploadedFile("csv", rows, WellsColumns, mapping)
LevelsUpload(rows, mapping) == UploadedFile("csv", rows, LevelsColumns, mapping)

\* the mappings autoMapColumns proposes for these columns
AquiferAuto == autoMapColumns(AquiferColumns, "aquifer")
WellsAuto == autoMapColumns(WellsColumns, "wells")
LevelsAuto == autoMapColumns(LevelsColumns, "waterLevels")

OneAquifer == FeatureCollection(<< AquiferFeature(JsStr(<< "X" >>), aName) >>)
OneWell == << WellRow(<< "A" >>, << "1" >>, << "1" >>, << "X" >>) >>
OneLevel == << LevelRow(<< "A" >>, aDate, aWte, << "X" >>) >>

\* well ids of measurements against well ids of wells (coordinates present)
IdInputs ==
  { [ rf |-> RegionUpload,
      af |-> AquiferUpload(OneAquifer, AquiferAuto),
      wf |-> WellsUpload(w, WellsAuto),
      lf |-> LevelsUpload(l, LevelsAuto) ] :
    w \in SeqsUpTo({ WellRow(id, << "1" >>, << "1" >>, << "X" >>) :
                       id \in WellIdVals },
                   MaxWells),
    l \in SeqsUpTo({ LevelRow(id, aDate, aWte, << "X" >>) : id \in WellIdVals },
                   MaxLevels) }

\* wells with a coordinate missing, against the measurements that name them
CoordInputs ==
  { [ rf |-> RegionUpload,
      af |-> AquiferUpload(OneAquifer, AquiferAuto),
      wf |-> WellsUpload(w, WellsAuto),
      lf |-> LevelsUpload(l, LevelsAuto) ] :
    w \in SeqsUpTo({ WellRow(id, c[1], c[2], << "X" >>) :
                       id \in WellIdVals \ { Empty }, c \in CoordPairs },
                   MaxWells),
    l \in SeqsUpTo({ LevelRow(id, aDate, aWte, << "X" >>) :
                       id \in WellIdVals \ { Empty } },
                   MaxLevels) }

\* aquifer references of wells against aquifer features
AquiferDocs ==
  { FeatureCollection(fs) :
      fs \in SeqsUpTo({ AquiferFeature(v, aName) : v \in AqIdVals }, MaxAquifers) }
  \cup { AquiferFeature(v, aName) : v \in AqIdVals }

\* the i-th wells row is well A, B, ... and carries the i-th reference
WellsReferring(refs) ==
  [ i \in DOMAIN refs |->
      WellRow(<< UpperLetters[i] >>, << "1" >>, << "1" >>, refs[i]) ]

AquiferInputs ==
  { [ rf |-> RegionUpload,
      af |-> AquiferUpload(a, [AquiferAuto EXCEPT !.aquifer_id = c]),
      wf |-> WellsUpload(WellsReferring(refs),
                         [WellsAuto EXCEPT !.aquifer_id = q]),
      lf |-> LevelsUpload(OneLevel, LevelsAuto) ] :
    a \in AquiferDocs, c \in { sAquiferId, sName },
    refs \in SeqsUpTo(AqRefVals, MaxWells),
    q \in { sAquiferId, Empty } }

\* mappings set or unset, key by key
MappingChoices(auto) ==
  { m \in [DOMAIN auto -> { Empty } \cup { auto[k] : k \in DOMAIN auto }] :
      \A k \in DOMAIN auto : m[k] \in { Empty, auto[k] } }

MappingInputs ==
  { [ rf |-> RegionUpload,
      af |-> AquiferUpload(OneAquifer, ma),
      wf |-> WellsUpload(OneWell, mw),
      lf |-> LevelsUpload(OneLevel, ml) ] :
    ma \in MappingChoices(AquiferAuto), mw \in MappingChoices(WellsAuto),
    ml \in MappingChoices(LevelsAuto) }

\* the wizard asks for the files in order, so the missing ones are a suffix
DefaultInput ==
  [ rf |-> RegionUpload,
    af |-> AquiferUpload(OneAquifer, AquiferAuto),
    wf |-> WellsUpload(OneWell, WellsAuto),
    lf |-> LevelsUpload(OneLevel, LevelsAuto) ]

MissingInputs ==
  LET all == DefaultInput
  IN  { [all EXCEPT !.lf = NoFile],
        [all EXCEPT !.lf = NoFile, !.wf = NoFile],
        [all EXCEPT !.lf = NoFile, !.wf = NoFile, !.af = NoFile],
        [all EXCEPT !.lf = NoFile, !.wf = NoFile, !.af = NoFile, !.rf = NoFile] }

ValidatorInputs ==
  { DefaultInput } \cup IdInputs \cup CoordInputs \cup AquiferInputs
    \cup MappingInputs
    \cup MissingInputs

aRegionName == << "A"," ","b" >>

(***************************************************************************)
(* The validator and exporter on every input: the wizard at rest with the  *)
(* files uploaded and mapped, then validateData and processData.           *)
(***************************************************************************)
ValidatorInit ==
  \E in \in ValidatorInputs :
    /\ regionFile = in.rf
    /\ aquiferFile = in.af
    /\ wellsFile = in.wf
    /\ waterLevelsFile = in.lf
    /\ step = IF in.rf = NoFile THEN 2 ELSE IF in.af = NoFile THEN 3
              ELSE IF in.wf = NoFile THEN 4 ELSE 5
    /\ regionName = aRegionName
    \* the mapper of the water levels still open on the default input, with
    \* the date format yet to be picked
    /\ showColumnMapper \in IF in = DefaultInput THEN BOOLEAN ELSE { FALSE }
    /\ dateFormat = IF showColumnMapper THEN "iso" ELSE "us-short"
    /\ currentMappingFile =
         IF in.lf # NoFile THEN "waterLevels" ELSE IF in.wf # NoFile THEN "wells"
         ELSE IF in.af # NoFile THEN "aquifer" ELSE "none"
    /\ validation = NoValidation
    /\ isProcessing = FALSE
    /\ zipFile = NoBundle
    /\ runs = << >>
    /\ uploads = << >>
    /\ served = << >>
    /\ existingRegions = {}
    /\ call = NoCall
    /\ ret = << >>

ValidatorNext ==
  \/ \E f \in DateFormats : SetDateFormat(f)
  \/ CloseMapper
  \/ ValidateDataCall
  \/ ProcessData
  \/ \E i \in 1..MaxRuns, o \in FetchOutcomes : FetchSettles(i, o)
  \/ \E i \in 1..MaxRuns : ZipSettles(i)

ValidatorSpec == ValidatorInit /\ [][ValidatorNext]_vars

(***************************************************************************)
(* The wizard: the six steps, uploads, the column mapper, processData, the *)
(* zip installed under public/data/ and the wizard closed and reopened.    *)
(* Uploads and mapping edits are drawn from small sets.  The date format   *)
(* stays at its default here (SetDateFormat is exercised under             *)
(* ValidatorSpec); a file of the wrong kind for its card and a rejected    *)
(* zip.generateAsync are left out.                                         *)
(***************************************************************************)
FileTypes == { "region", "aquifer", "wells", "waterLevels" }

\* two names of one slug
RegionNames == { << "A"," ","b" >>, << "a","-","b" >> }

\* what public/data/regions.json holds when the app is first loaded
InstalledManifests == { << ManifestEntry(<< "c" >>, << "C" >>) >> }

\* what reading and parsing a chosen file can give, per kind
UploadContents(fileType) ==
  CASE fileType = "region" -> { RegionUpload }
    [] fileType = "aquifer" -> { AquiferUpload(OneAquifer, << >>) }
    [] fileType = "wells" -> { WellsUpload(OneWell, << >>) }
    [] OTHER -> { LevelsUpload(OneLevel, << >>) }

\* the selections the operator makes in the column mapper: file kind,
\* target column, source column
MappingEdits ==
  { << "wells", "aquifer_id", c >> : c \in { Empty, sAquiferId, sWellId } }

FileOf(fileType) ==
  CASE fileType = "region" -> regionFile
    [] fileType = "aquifer" -> aquiferFile
    [] fileType = "wells" -> wellsFile
    [] fileType = "waterLevels" -> waterLevelsFile
    [] OTHER -> NoFile

\* the step whose FileUploadCard belongs to the kind
StepOf(fileType) ==
  CASE fileType = "region" -> 2
    [] fileType = "aquifer" -> 3
    [] fileType = "wells" -> 4
    [] OTHER -> 5

ManifestIds(manifest) == { manifest[i].id : i \in DOMAIN manifest }

Init ==
  /\ step = 1
  /\ regionName = Empty
  /\ regionFile = NoFile
  /\ aquiferFile = NoFile
  /\ wellsFile = NoFile
  /\ waterLevelsFile = NoFile
  /\ dateFormat = "iso"
  /\ showColumnMapper = FALSE
  /\ currentMappingFile = "none"
  /\ validation = NoValidation
  /\ isProcessing = FALSE
  /\ zipFile = NoBundle
  /\ runs = << >>
  /\ uploads = << >>
  /\ served \in InstalledManifests
  /\ existingRegions = ManifestIds(served)
  /\ call = NoCall
  /\ ret = << >>

\* the region name input of step 1
SetRegionName(name) ==
  /\ step = 1
  /\ ~Overlaid
  /\ regionName' = name
  /\ UNCHANGED << step, regionFile, aquiferFile, wellsFile, waterLevelsFile,
                  dateFormat, showColumnMapper, currentMappingFile, validation,
                  isProcessing, zipFile, runs, uploads, served,
                  existingRegions >>
  /\ UNCHANGED frame

validateRegionName(name) ==
  /\ ~IsBlank(name)
  /\ getFolderName(name) \notin existingRegions

\* the Next button
NextStep ==
  /\ step < 5
  /\ ~Overlaid
  /\ ~ \/ step = 1 /\ regionName = Empty
       \/ step = 2 /\ regionFile = NoFile
       \/ step = 3 /\ aquiferFile = NoFile
       \/ step = 4 /\ wellsFile = NoFile
  /\ step = 1 => validateRegionName(regionName)
  /\ step' = step + 1
  /\ UNCHANGED << regionName, regionFile, aquiferFile, wellsFile,
                  waterLevelsFile, dateFormat, showColumnMapper,
                  currentMappingFile, validation, isProcessing, zipFile, runs,
                  uploads, served, existingRegions >>
  /\ UNCHANGED frame

\* the Back button
BackStep ==
  /\ step # 1 /\ step # 6
  /\ ~Overlaid
  /\ step' = step - 1
  /\ UNCHANGED << regionName, regionFile, aquiferFile, wellsFile,
                  waterLevelsFile, dateFormat, showColumnMapper,
                  currentMappingFile, validation, isProcessing, zipFile, runs,
                  uploads, served, existingRegions >>
  /\ UNCHANGED frame

\* handleFileUpload up to its await: a file of a supported kind was chosen
UploadStarts(fileType) ==
  /\ step = StepOf(fileType)
  /\ ~Overlaid
  /\ Len(uploads) < MaxUploads
  /\ isProcessing' = TRUE
  /\ uploads' = Append(uploads, fileType)
  /\ UNCHANGED << step, regionName, regionFile, aquiferFile, wellsFile,
                  waterLevelsFile, dateFormat, showColumnMapper,
                  currentMappingFile, validation, zipFile, runs, served,
                  existingRegions >>
  /\ UNCHANGED frame

\* handleFileUpload on a file of an unsupported kind: no await
UploadUnsupported(fileType) ==
  /\ step = StepOf(fileType)
  /\ ~Overlaid
  /\ isProcessing' = FALSE
  /\ UNCHANGED << step, regionName, regionFile, aquiferFile, wellsFile,
                  waterLevelsFile, dateFormat, showColumnMapper,
                  currentMappingFile, validation, zipFile, runs, uploads,
                  served, existingRegions >>
  /\ UNCHANGED frame

\* the read settles and the file parses: auto-map, store, open the mapper
UploadSettles(i, content) ==
  /\ i \in DOMAIN uploads
  /\ content \in UploadContents(uploads[i])
  /\ LET fileType == uploads[i]
         uploadedFile ==
           [content EXCEPT !.mapping = autoMapColumns(content.columns, fileType)]
     IN  /\ regionFile' = IF fileType = "region" THEN uploadedFile ELSE regionFile
         /\ aquiferFile' = IF fileType = "aquifer" THEN uploadedFile ELSE aquiferFile
         /\ wellsFile' = IF fileType = "wells" THEN uploadedFile ELSE wellsFile
         /\ waterLevelsFile' =
              IF fileType = "waterLevels" THEN uploadedFile ELSE waterLevelsFile
         /\ IF fileType # "region"
            THEN currentMappingFile' = fileType /\ showColumnMapper' = TRUE
            ELSE UNCHANGED << currentMappingFile, showColumnMapper >>
  /\ isProcessing' = FALSE
  /\ uploads' = RemoveAt(uploads, i)
  /\ UNCHANGED << step, regionName, dateFormat, validation, zipFile, runs,
                  served, existingRegions >>
  /\ UNCHANGED frame

\* the read or the parse throws: the catch logs, then setIsProcessing(false)
UploadFails(i) ==
  /\ i \in DOMAIN uploads
  /\ isProcessing' = FALSE
  /\ uploads' = RemoveAt(uploads, i)
  /\ UNCHANGED << step, regionName, regionFile, aquiferFile, wellsFile,
                  waterLevelsFile, dateFormat, showColumnMapper,
                  currentMappingFile, validation, zipFile, runs, served,
                  existingRegions >>
  /\ UNCHANGED frame

\* the Edit Column Mapping button of a card
OpenMapper(fileType) ==
  /\ ~Overlaid
  /\ fileType # "region"
  /\ step = StepOf(fileType)
  /\ FileOf(fileType) # NoFile
  /\ currentMappingFile' = fileType
  /\ showColumnMapper' = TRUE
  /\ UNCHANGED << step, regionName, regionFile, aquiferFile, wellsFile,
                  waterLevelsFile, dateFormat, validation, isProcessing,
                  zipFile, runs, uploads, served, existingRegions >>
  /\ UNCHANGED frame

\* { ...file, mapping: { ...file.mapping, [targetColumn]: sourceColumn } }
updateFile(file, targetColumn, sourceColumn) ==
  IF file = NoFile THEN NoFile
  ELSE [file EXCEPT !.mapping =
          [ k \in DOMAIN file.mapping \cup { targetColumn } |->
              IF k = targetColumn THEN sourceColumn ELSE file.mapping[k] ]]

\* a select of the mapper changes: updateMapping(col.key, e.target.value)
UpdateMapping(fileType, targetColumn, sourceColumn) ==
  /\ MapperShown
  /\ currentMappingFile = fileType
  /\ \E i \in DOMAIN getRequiredColumns(currentMappingFile) :
       getRequiredColumns(currentMappingFile)[i].key = targetColumn
  /\ sourceColumn \in SeqRange(FileOf(currentMappingFile).columns) \cup { Empty }
  /\ regionFile' = IF currentMappingFile = "region"
                   THEN updateFile(regionFile, targetColumn, sourceColumn)
                   ELSE regionFile
  /\ aquiferFile' = IF currentMappingFile = "aquifer"
                    THEN updateFile(aquiferFile, targetColumn, sourceColumn)
                    ELSE aquiferFile
  /\ wellsFile' = IF currentMappingFile = "wells"
                  THEN updateFile(wellsFile, targetColumn, sourceColumn)
                  ELSE wellsFile
  /\ waterLevelsFile' = IF currentMappingFile = "waterLevels"
                        THEN updateFile(waterLevelsFile, targetColumn, sourceColumn)
                        ELSE waterLevelsFile
  /\ UNCHANGED << step, regionName, dateFormat, showColumnMapper,
                  currentMappingFile, validation, isProcessing, zipFile, runs,
                  uploads, served, existingRegions >>
  /\ UNCHANGED frame

\* Download Zip at step 6, then the zip extracted into public/data/: its
\* regions.json replaces the served one
InstallZip ==
  /\ step = 6
  /\ ~Overlaid
  /\ zipFile # NoBundle
  /\ Len(zipFile.manifest) <= MaxRegions
  /\ served' = zipFile.manifest
  /\ UNCHANGED << step, regionName, regionFile, aquiferFile, wellsFile,
                  waterLevelsFile, dateFormat, showColumnMapper,
                  currentMappingFile, validation, isProcessing, zipFile, runs,
                  uploads, existingRegions >>
  /\ UNCHANGED frame

\* onClose unmounts the wizard and Manage Data mounts a fresh one (refresh:
\* the page is reloaded in between, so the App loads the served manifest);
\* calls still suspended belong to the unmounted instance
Reopen(refresh) ==
  /\ refresh \/ ~Overlaid
  /\ step' = 1
  /\ regionName' = Empty
  /\ regionFile' = NoFile
  /\ aquiferFile' = NoFile
  /\ wellsFile' = NoFile
  /\ waterLevelsFile' = NoFile
  /\ dateFormat' = "iso"
  /\ showColumnMapper' = FALSE
  /\ currentMappingFile' = "none"
  /\ validation' = NoValidation
  /\ isProcessing' = FALSE
  /\ zipFile' = NoBundle
  /\ runs' = << >>
  /\ uploads' = << >>
  /\ existingRegions' = IF refresh THEN ManifestIds(served) ELSE existingRegions
  /\ UNCHANGED served
  /\ UNCHANGED frame

Next ==
  \/ \E name \in RegionNames \cup { Empty } : SetRegionName(name)
  \/ NextStep
  \/ BackStep
  \/ \E t \in FileTypes : UploadStarts(t)
  \/ \E t \in FileTypes : UploadUnsupported(t)
  \/ \E i \in 1..MaxUploads, t \in FileTypes :
       \E c \in UploadContents(t) : UploadSettles(i, c)
  \/ \E i \in 1..MaxUploads : UploadFails(i)
  \/ \E t \in FileTypes : OpenMapper(t)
  \/ CloseMapper
  \/ \E e \in MappingEdits : UpdateMapping(e[1], e[2], e[3])
  \/ ProcessData
  \/ \E i \in 1..MaxRuns, o \in FetchOutcomes : FetchSettles(i, o)
  \/ \E i \in 1..MaxRuns : ZipSettles(i)
  \/ InstallZip
  \/ \E refresh \in BOOLEAN : Reopen(refresh)

Spec == Init /\ [][Next]_vars

(***************************************************************************)
(* Properties of validateData (checked under ValidatorSpec, where the      *)
(* files stay as uploaded, so validation is the result for the files of    *)
(* the state).                                                             *)
(***************************************************************************)
Validated == validation # NoValidation

AllFilesPresent ==
  /\ regionFile # NoFile /\ aquiferFile # NoFile
  /\ wellsFile # NoFile /\ waterLevelsFile # NoFile

\* the required keys of the three schemas that have no column
UnsetRequired(file, keys) == { k \in keys : MappingOf(file, k) = Empty }
UnsetAquiferKeys == UnsetRequired(aquiferFile, { "aquifer_id", "aquifer_name" })
UnsetWellsKeys == UnsetRequired(wellsFile, { "well_id", "lat", "long" })
UnsetLevelsKeys == UnsetRequired(waterLevelsFile, { "well_id", "date", "wte" })

ReachesReferentialChecks ==
  /\ AllFilesPresent
  /\ UnsetAquiferKeys = {} /\ UnsetWellsKeys = {} /\ UnsetLevelsKeys = {}

WellIdAt(j) == wellsFile.data[j][wellsFile.mapping.well_id]
WellAqRefAt(j) == wellsFile.data[j][wellsFile.mapping.aquifer_id]
LevelRefAt(i) == waterLevelsFile.data[i][waterLevelsFile.mapping.well_id]

\* measurement rows whose reference is empty or is the id of no well row
UnmatchedLevels ==
  { i \in DOMAIN waterLevelsFile.data :
      \/ LevelRefAt(i) = Empty
      \/ \A j \in DOMAIN wellsFile.data : WellIdAt(j) # LevelRefAt(i) }

\* C1: once the referential checks are reached, droppedMeasurements is the
\* number of measurement rows (duplicates and empty references counted) whose
\* well reference is the id of no well row.
C1_DroppedCount ==
  (Validated /\ ReachesReferentialChecks) =>
    validation.droppedMeasurements = Cardinality(UnmatchedLevels)

\* two equal measurement rows, both dropped, next to a well with an empty id
C1_Witness ==
  /\ Validated /\ ReachesReferentialChecks
  /\ Len(waterLevelsFile.data) = 2
  /\ waterLevelsFile.data[1] = waterLevelsFile.data[2]
  /\ LevelRefAt(1) = Empty
  /\ \E j \in DOMAIN wellsFile.data : WellIdAt(j) = Empty
  /\ validation.droppedMeasurements = 2

\* C2: isValid is false exactly when errors is non-empty, whatever the
\* warnings and the dropped count are.
C2_ValidIffNoErrors ==
  Validated => (validation.isValid = FALSE <=> validation.errors # << >>)

\* a valid result that carries warnings and a dropped count
C2_Witness ==
  /\ Validated /\ validation.isValid
  /\ Len(validation.warnings) = 2
  /\ validation.droppedMeasurements > 0

ErrorsOfKind(kind) ==
  { i \in DOMAIN validation.errors : validation.errors[i].kind = kind }
ErrorsAbout(kind, about) ==
  { i \in ErrorsOfKind(kind) : validation.errors[i].a = << about >> }

NoReferentialOutput ==
  /\ validation.warnings = << >>
  /\ validation.droppedMeasurements = 0
  /\ ErrorsOfKind("wellAquifer") = {}
  /\ validation.isValid = FALSE

\* C3: with a file missing, errors holds one entry per missing file and
\* nothing else; otherwise, with a required mapping unset, one entry per unset
\* required mapping and nothing else; in both cases no referential check ran.
C3_FirstFailingStage ==
  Validated =>
    IF ~AllFilesPresent
    THEN /\ \A f \in { "region", "aquifer", "wells", "waterLevels" } :
              Cardinality(ErrorsAbout("fileRequired", f)) =
                IF ( CASE f = "region" -> regionFile
                       [] f = "aquifer" -> aquiferFile
                       [] f = "wells" -> wellsFile
                       [] OTHER -> waterLevelsFile ) = NoFile THEN 1 ELSE 0
         /\ ErrorsOfKind("fileRequired") = DOMAIN validation.errors
         /\ NoReferentialOutput
    ELSE ~ReachesReferentialChecks =>
         /\ Cardinality(ErrorsAbout("missingMapping", "aquifer"))
              = Cardinality(UnsetAquiferKeys)
         /\ Cardinality(ErrorsAbout("missingMapping", "wells"))
              = Cardinality(UnsetWellsKeys)
         /\ Cardinality(ErrorsAbout("missingMapping", "waterLevels"))
              = Cardinality(UnsetLevelsKeys)
         /\ ErrorsOfKind("missingMapping") = DOMAIN validation.errors
         /\ \A i, j \in DOMAIN validation.errors :
              validation.errors[i] = validation.errors[j] => i = j
         /\ NoReferentialOutput

\* required mappings unset in two files, and the optional wells aquifer column
\* unset as well (it would warn, had the referential checks run)
C3_Witness ==
  /\ Validated /\ AllFilesPresent
  /\ UnsetAquiferKeys # {} /\ UnsetLevelsKeys # {}
  /\ MappingOf(wellsFile, "aquifer_id") = Empty
  /\ Len(validation.errors) >= 2

\* identifiers the aquifer features carry under the aquifer id mapping
AquiferIdentifiers ==
  LET fs == FeaturesOf(aquiferFile.data)
      v(i) == Prop(fs[i], aquiferFile.mapping.aquifer_id)
  IN  { JsToString(v(i)) : i \in { j \in DOMAIN fs : v(j) # JsUndef } }

OffendingWell(j) ==
  /\ MappingOf(wellsFile, "aquifer_id") # Empty
  /\ WellAqRefAt(j) # Empty
  /\ WellAqRefAt(j) \notin AquiferIdentifiers

\* C4: once the referential checks run, the well-to-aquifer errors are one
\* per well row whose non-empty aquifer reference is the identifier of no
\* aquifer feature, in row order, naming the row's well id and aquifer id;
\* a row whose reference is empty or matches a feature gets none.
C4_WellAquiferErrors ==
  (Validated /\ ReachesReferentialChecks) =>
    LET bad == SelectSeq([ j \in DOMAIN wellsFile.data |-> j ], OffendingWell)
    IN  /\ validation.errors =
             [ i \in DOMAIN bad |->
                 Message("wellAquifer", WellIdAt(bad[i]), WellAqRefAt(bad[i])) ]
        /\ (bad # << >> => validation.isValid = FALSE)

(***************************************************************************)
(* Properties of the bundle                                                *)
(***************************************************************************)
\* the tables of every processData call past validation, and of the zip
Bundles ==
  { BundleOf(runs[i]) : i \in DOMAIN runs }
    \cup (IF zipFile = NoBundle THEN {} ELSE { zipFile })

\* C6: every row of the exported measurements table carries the well_id of
\* a row of the exported wells table of the same bundle.
C6_LevelsReferenceExportedWells ==
  \A b \in Bundles :
    \A i \in DOMAIN b.water_levels :
      \E j \in DOMAIN b.wells : b.wells[j].well_id = b.water_levels[i].well_id

\* a zip whose measurements table kept a row and lost another
C6_Witness ==
  /\ zipFile # NoBundle
  /\ Len(zipFile.water_levels) = 1
  /\ Len(waterLevelsFile.data) = 2

\* C7: in every processData call past validation, the droppedMeasurements
\* of its validation result equals the number of uploaded measurement rows
\* missing from its exported measurements table.
C7_DroppedMatchesExport ==
  \A i \in DOMAIN runs :
    runs[i].result.droppedMeasurements =
      runs[i].uploadedLevels - Len(runs[i].water_levels)

\* C8: every exported wells row with a non-empty aquifer_id carries the
\* aquifer_id of a feature of the exported aquifer document of the bundle.
C8_WellsReferenceExportedAquifers ==
  \A b \in Bundles :
    \A i \in DOMAIN b.wells :
      b.wells[i].aquifer_id # Empty =>
        \E k \in DOMAIN b.aquifers :
          b.aquifers[k].aquifer_id = b.wells[i].aquifer_id

\* a zip with two wells rows that both name an aquifer
C8_Witness ==
  /\ zipFile # NoBundle
  /\ Len(zipFile.wells) = 2
  /\ \A i \in DOMAIN zipFile.wells : zipFile.wells[i].aquifer_id # Empty

(***************************************************************************)
(* Properties of processData in the wizard (checked under Spec)            *)
(***************************************************************************)
\* C5: a processData call whose validation has a fatal error starts no
\* export, sets no zip and leaves the step alone; a call whose validation
\* is valid goes on to the export, with or without warnings; the step turns
\* 6 and a zip is set only where the zip of a call with a valid validation
\* settles, and that settling always sets the call's bundle and step 6.
C5_FatalErrorsBlockExport ==
  [][ /\ (ProcessData /\ ~validation'.isValid) =>
           (runs' = runs /\ zipFile' = zipFile /\ step' = step)
      /\ (ProcessData /\ validation'.isValid) =>
           /\ Len(runs') = Len(runs) + 1
           /\ runs'[Len(runs')].result = validation'
      /\ ((zipFile' # zipFile /\ zipFile' # NoBundle) \/ (step' = 6 /\ step # 6)) =>
           \E i \in DOMAIN runs : runs[i].result.isValid /\ ZipSettles(i)
      /\ \A i \in DOMAIN runs :
           ZipSettles(i) => (step' = 6 /\ zipFile' = BundleOf(runs[i]))
    ]_vars

\* a call returned on a fatal error: the wizard rests at step 5 without zip
C5_Witness ==
  /\ validation # NoValidation
  /\ Len(validation.errors) >= 1
  /\ step = 5 /\ zipFile = NoBundle /\ runs = << >> /\ ~isProcessing

\* a call whose validation carried a warning has reached step 6
C5_WarningsReachStep6 ==
  /\ step = 6 /\ zipFile # NoBundle
  /\ validation # NoValidation
  /\ validation.isValid /\ Len(validation.warnings) >= 1

DistinctIds(manifest) ==
  \A i, j \in DOMAIN manifest : manifest[i].id = manifest[j].id => i = j

\* C9: where the fetch yields the served manifest (ids pairwise distinct),
\* the merged manifest begins with the served entries unchanged and in
\* order and holds exactly one entry of the new slug: the served list
\* itself when the slug was present, the served list with {id, path, name}
\* appended when absent; and over every chain of exports and installs the
\* served manifest, the merged manifests and the zip's manifest keep their
\* ids pairwise distinct.
C9_ManifestMerge ==
  /\ [](/\ DistinctIds(served)
        /\ zipFile # NoBundle => DistinctIds(zipFile.manifest)
        /\ \A i \in DOMAIN runs : DistinctIds(runs[i].regionsManifest))
  /\ [][ \A i \in DOMAIN runs :
           FetchSettles(i, "ok") =>
             LET m == runs'[i].regionsManifest
                 id == runs[i].folderName
                 present == \E k \in DOMAIN served : served[k].id = id
             IN  /\ Len(m) >= Len(served)
                 /\ SubSeq(m, 1, Len(served)) = served
                 /\ Cardinality({ k \in DOMAIN m : m[k].id = id }) = 1
                 /\ present => m = served
                 /\ ~present =>
                      m = Append(served,
                            [ id |-> id,
                              path |-> << "/","d","a","t","a","/" >> \o id,
                              name |-> runs[i].regionName ])
       ]_vars

\* a second export of a slug the served manifest already lists under
\* another name: the zip's manifest is the served one, entry untouched
C9_Witness ==
  /\ step = 6 /\ zipFile # NoBundle
  /\ Len(served) = 2
  /\ zipFile.manifest = served
  /\ zipFile.region # << >>
  /\ \E k \in DOMAIN served :
       /\ served[k].id = zipFile.folder
       /\ served[k].name # zipFile.region[1].region_name

\* C10: whatever the manifest fetch yields, the call goes on to the zip, and
\* on every outcome but a served list its manifest is the new region's entry
\* alone; the zip then holds the call's four tables and that manifest.
C10_FetchNeverBlocksExport ==
  [][ /\ \A i \in DOMAIN runs : \A o \in FetchOutcomes :
           FetchSettles(i, o) =>
             /\ Len(runs') = Len(runs)
             /\ runs'[i].pc = "zip"
             /\ o # "ok" =>
                  runs'[i].regionsManifest =
                    << ManifestEntry(runs[i].folderName, runs[i].regionName) >>
      /\ \A i \in DOMAIN runs :
           ZipSettles(i) =>
             /\ zipFile'.region = runs[i].region
             /\ zipFile'.aquifers = runs[i].aquifers
             /\ zipFile'.wells = runs[i].wells
             /\ zipFile'.water_levels = runs[i].water_levels
             /\ zipFile'.manifest = runs[i].regionsManifest
    ]_vars

(***************************************************************************)
(* The helper functions applied on their own.  The wizard stays unmounted; *)
(* call holds the helper's name and arguments, ret its value once it has   *)
(* returned.  Each helper has a specification drawing its arguments from a *)
(* bounded set.                                                            *)
(***************************************************************************)
Unmounted ==
  /\ step = 1
  /\ regionName = Empty
  /\ regionFile = NoFile
  /\ aquiferFile = NoFile
  /\ wellsFile = NoFile
  /\ waterLevelsFile = NoFile
  /\ dateFormat = "iso"
  /\ showColumnMapper = FALSE
  /\ currentMappingFile = "none"
  /\ validation = NoValidation
  /\ isProcessing = FALSE
  /\ zipFile = NoBundle
  /\ runs = << >>
  /\ uploads = << >>
  /\ served = << >>
  /\ existingRegions = {}

Returned == ret # << >>

(***************************************************************************)
(* getFolderName on every name up to MaxNameLen characters.                *)
(***************************************************************************)
MaxNameLen == 4
NameChars == { "A", "b", "1", " ", "-" }
Names == SeqsUpTo(NameChars, MaxNameLen)

FolderNameInit ==
  /\ Unmounted
  /\ \E name \in Names : call = [fn |-> "getFolderName", name |-> name]
  /\ ret = << >>

GetFolderNameReturns ==
  /\ call.fn = "getFolderName"
  /\ ~Returned
  /\ ret' = << getFolderName(call.name) >>
  /\ UNCHANGED call
  /\ UNCHANGED wizard

FolderNameSpec == FolderNameInit /\ [][GetFolderNameReturns]_vars

\* the characters [a-z0-9] of a string, in order
SlugChars(s) == SelectSeq(s, IsSlugChar)

\* the maximal runs of characters outside [a-z0-9], as index pairs
Runs(s) ==
  { r \in (DOMAIN s) \X (DOMAIN s) :
      /\ r[1] <= r[2]
      /\ \A k \in r[1]..r[2] : ~IsSlugChar(s[k])
      /\ r[1] = 1 \/ IsSlugChar(s[r[1] - 1])
      /\ r[2] = Len(s) \/ IsSlugChar(s[r[2] + 1]) }

\* the runs with a character of [a-z0-9] on both sides
InnerRuns(s) == { r \in Runs(s) : r[1] > 1 /\ r[2] < Len(s) }

Hyphens(s) == { i \in DOMAIN s : s[i] = "-" }

\* C11: getFolderName(name) is made of a-z, 0-9 and hyphens only, has no two
\* adjacent hyphens, neither starts nor ends with a hyphen, keeps the
\* lowercased name's a-z and 0-9 characters in order with one hyphen for every
\* maximal run of other characters between them, and is a fixed point of
\* getFolderName.
C11_FolderNameIsSlug ==
  (call.fn = "getFolderName" /\ Returned) =>
    LET r == ret[1]
        lower == ToLowerCase(call.name)
    IN  /\ \A i \in DOMAIN r : IsSlugChar(r[i]) \/ r[i] = "-"
        /\ \A i \in 1..(Len(r) - 1) : ~(r[i] = "-" /\ r[i + 1] = "-")
        /\ r # Empty => (r[1] # "-" /\ r[Len(r)] # "-")
        /\ SlugChars(r) = SlugChars(lower)
        /\ Cardinality(Hyphens(r)) = Cardinality(InnerRuns(lower))
        /\ getFolderName(r) = r

\* a name with an upper-case letter and a run of two other characters inside
\* has returned its slug
C11_Witness ==
  /\ call.fn = "getFolderName"
  /\ call.name = << "A", " ", "-", "b" >>
  /\ ret = << << "a", "-", "b" >> >>

(***************************************************************************)
(* parseDate on every date string up to MaxDateLen characters and on the   *)
(* two dates of the documentation, under every date format of the select.  *)
(***************************************************************************)
MaxDateLen == 5
DateChars == { "1", "9", "/", "-" }
usShortExample == << "1","/","5","/","0","9" >>
euShortExample == << "1","5","/","1","/","0","9" >>
DateStrings == SeqsUpTo(DateChars, MaxDateLen) \cup { usShortExample, euShortExample }

ParseDateInit ==
  /\ Unmounted
  /\ \E d \in DateStrings, f \in DateFormats :
       call = [fn |-> "parseDate", dateStr |-> d, format |-> f]
  /\ ret = << >>

ParseDateReturns ==
  /\ call.fn = "parseDate"
  /\ ~Returned
  /\ ret' = << parseDate(call.dateStr, call.format) >>
  /\ UNCHANGED call
  /\ UNCHANGED wizard

ParseDateSpec == ParseDateInit /\ [][ParseDateReturns]_vars

\* where a character occurs in a string
Occurrences(s, c) == { i \in DOMAIN s : s[i] = c }

\* the separator the format's branch splits on
SeparatorOf(format) == IF format = "iso" THEN "-" ELSE "/"

\* a string of exactly three parts on a separator, and its three parts
HasThreeParts(s, sep) == Cardinality(Occurrences(s, sep)) = 2
FirstSep(s, sep) == CHOOSE i \in Occurrences(s, sep) : \A j \in Occurrences(s, sep) : i <= j
LastSep(s, sep) == CHOOSE i \in Occurrences(s, sep) : \A j \in Occurrences(s, sep) : j <= i
Part0(s, sep) == SubSeq(s, 1, FirstSep(s, sep) - 1)
Part1(s, sep) == SubSeq(s, FirstSep(s, sep) + 1, LastSep(s, sep) - 1)
Part2(s, sep) == SubSeq(s, LastSep(s, sep) + 1, Len(s))

\* left-padded with zeros to two characters
ZeroPadded(p) ==
  IF Len(p) = 0 THEN << "0", "0" >> ELSE IF Len(p) = 1 THEN << "0" >> \o p ELSE p

\* p2 prefixed with 20 when it has exactly two characters
FullYear(p) == IF Len(p) = 2 THEN << "2", "0" >> \o p ELSE p

Dashed(year, month, day) == year \o << "-" >> \o month \o << "-" >> \o day

\* C12: under us and us-short a date string p0/p1/p2 gives year-month-day with
\* month p0 and day p1 zero-padded to two characters and year p2, prefixed
\* with 20 when p2 has two characters; under eu and eu-short p0 is the day and
\* p1 the month; 1/5/09 under us-short gives 2009-01-05 and 15/1/09 under
\* eu-short gives 2009-01-15.
C12_SlashDatesReordered ==
  (call.fn = "parseDate" /\ Returned /\ call.format # "iso"
     /\ HasThreeParts(call.dateStr, "/")) =>
    LET d == call.dateStr
        p0 == Part0(d, "/")
        p1 == Part1(d, "/")
        p2 == Part2(d, "/")
    IN  /\ call.format \in { "us", "us-short" } =>
             ret[1] = Dashed(FullYear(p2), ZeroPadded(p0), ZeroPadded(p1))
        /\ call.format \in { "eu", "eu-short" } =>
             ret[1] = Dashed(FullYear(p2), ZeroPadded(p1), ZeroPadded(p0))
        /\ (d = usShortExample /\ call.format = "us-short") =>
             ret[1] = << "2","0","0","9","-","0","1","-","0","5" >>
        /\ (d = euShortExample /\ call.format = "eu-short") =>
             ret[1] = << "2","0","0","9","-","0","1","-","1","5" >>

\* 15/1/09 under eu-short has returned 2009-01-15
C12_Witness ==
  /\ call.fn = "parseDate"
  /\ call.dateStr = euShortExample
  /\ call.format = "eu-short"
  /\ ret = << << "2","0","0","9","-","0","1","-","1","5" >> >>

\* C13: parseDate returns its input unchanged when the format is iso and the
\* input has three hyphen-separated parts, and when the input does not have
\* exactly three parts on the format's separator (hyphen for iso, slash for
\* the us and eu variants); every call returns.
C13_OtherDatesUnchanged ==
  (call.fn = "parseDate" /\ Returned) =>
    /\ (call.format = "iso" /\ HasThreeParts(call.dateStr, "-")) =>
         ret[1] = call.dateStr
    /\ ~HasThreeParts(call.dateStr, SeparatorOf(call.format)) =>
         ret[1] = call.dateStr

\* a hyphen-separated date under a slash format has come back as it went in
C13_Witness ==
  /\ call.fn = "parseDate"
  /\ call.format = "us"
  /\ call.dateStr = << "1","-","9","-","1" >>
  /\ ret = << call.dateStr >>

(***************************************************************************)
(* Numbers of the interpolation engine: a finite number is an exact        *)
(* fraction << numerator, denominator >> in lowest terms with a positive   *)
(* denominator; the result of dividing by zero is NonFinite, which every   *)
(* operation propagates and isFinite rejects.  Rounding is not modelled.   *)
(***************************************************************************)
Abs(n) == IF n < 0 THEN -n ELSE n

RECURSIVE Gcd(_, _)
Gcd(a, b) == IF b = 0 THEN a ELSE Gcd(b, a % b)

NonFinite == << 0, 0 >>
isFinite(v) == v[2] # 0

Frac(n, d) ==
  IF d = 0 THEN NonFinite
  ELSE LET g == Gcd(Abs(n), Abs(d))
           s == IF d < 0 THEN -1 ELSE 1
       IN  << (s * n) \div g, (s * d) \div g >>

Num(n) == << n, 1 >>
Zero == Num(0)

Plus(a, b) ==
  IF isFinite(a) /\ isFinite(b) THEN Frac(a[1] * b[2] + b[1] * a[2], a[2] * b[2])
  ELSE NonFinite
Minus(a, b) ==
  IF isFinite(a) /\ isFinite(b) THEN Frac(a[1] * b[2] - b[1] * a[2], a[2] * b[2])
  ELSE NonFinite
Times(a, b) ==
  IF isFinite(a) /\ isFinite(b) THEN Frac(a[1] * b[1], a[2] * b[2]) ELSE NonFinite
Over(a, b) ==
  IF isFinite(a) /\ isFinite(b) THEN Frac(a[1] * b[2], a[2] * b[1]) ELSE NonFinite

\* a <= b and a < b; a comparison with a non-finite operand is false
Leq(a, b) == isFinite(a) /\ isFinite(b) /\ a[1] * b[2] <= b[1] * a[2]
Less(a, b) == isFinite(a) /\ isFinite(b) /\ a[1] * b[2] < b[1] * a[2]

(***************************************************************************)
(* interpolatePCHIP, monotone cubic (Hermite) form.  Arrays are sequences  *)
(* indexed from 1: x[i] here is x[i - 1] of the code.                      *)
(***************************************************************************)
\* h[i] = x[i + 1] - x[i]
intervals(x) == [ i \in 1..(Len(x) - 1) |-> Minus(x[i + 1], x[i]) ]

\* delta[i] = h[i] === 0 ? 0 : (y[i + 1] - y[i]) / h[i]
secants(x, y) ==
  LET h == intervals(x)
  IN  [ i \in 1..(Len(x) - 1) |->
          IF h[i] = Zero THEN Zero ELSE Over(Minus(y[i + 1], y[i]), h[i]) ]

\* the slopes with the weighted harmonic mean taken whatever the signs of the
\* secants
slopesWithoutSignTest(x, y) ==
  LET n == Len(x)
      h == intervals(x)
      delta == secants(x, y)
  IN  [ i \in 1..n |->
          IF i = 1 THEN delta[1]
          ELSE IF i = n THEN delta[n - 1]
          ELSE LET w1 == Plus(Times(Num(2), h[i]), h[i - 1])
                   w2 == Plus(h[i], Times(Num(2), h[i - 1]))
                   denom == Plus(Over(w1, delta[i - 1]), Over(w2, delta[i]))
               IN  IF ~isFinite(denom) \/ denom = Zero THEN Zero
                   ELSE Over(Plus(w1, w2), denom) ]

\* the slopes m of the monotone form
slopes(x, y) ==
  LET n == Len(x)
      h == intervals(x)
      delta == secants(x, y)
  IN  [ i \in 1..n |->
          IF i = 1 THEN (IF isFinite(delta[1]) THEN delta[1] ELSE Zero)
          ELSE IF i = n THEN (IF isFinite(delta[n - 1]) THEN delta[n - 1] ELSE Zero)
          ELSE IF Leq(Times(delta[i - 1], delta[i]), Zero) THEN Zero
          ELSE LET w1 == Plus(Times(Num(2), h[i]), h[i - 1])
                   w2 == Plus(h[i], Times(Num(2), h[i - 1]))
                   denom == Plus(Over(w1, delta[i - 1]), Over(w2, delta[i]))
               IN  IF ~isFinite(denom) \/ denom = Zero THEN Zero
                   ELSE Over(Plus(w1, w2), denom) ]

\* the scan that also steps over a sample equal to the target
findIntervalPastEqual(x, tx) ==
  LET n == Len(x)
  IN  CHOOSE i \in 1..(n - 1) :
        /\ ~(i < n - 1 /\ Leq(x[i + 1], tx))
        /\ \A j \in 1..(i - 1) : j < n - 1 /\ Leq(x[j + 1], tx)

\* let i = 0; while (i < n - 2 && x[i + 1] < tx) i++;
findInterval(x, tx) ==
  LET n == Len(x)
  IN  CHOOSE i \in 1..(n - 1) :
        /\ ~(i < n - 1 /\ Less(x[i + 1], tx))
        /\ \A j \in 1..(i - 1) : j < n - 1 /\ Less(x[j + 1], tx)

\* if (tx <= x[0]) return y[0];
atOrBelow(tx, first) == Leq(tx, first)

\* no target counts as past the last sample
neverAbove(tx, last) == FALSE

\* if (tx >= x[n - 1]) return y[n - 1];
atOrAbove(tx, last) == Leq(last, tx)

\* the Hermite cubic of interval i at tx
hermiteOn(x, y, i, tx) ==
  LET h == intervals(x)
      m == slopes(x, y)
  IN  IF h[i] = Zero THEN y[i]
      ELSE LET t == Over(Minus(tx, x[i]), h[i])
               t2 == Times(t, t)
               t3 == Times(t2, t)
               h00 == Plus(Minus(Times(Num(2), t3), Times(Num(3), t2)), Num(1))
               h10 == Plus(Minus(t3, Times(Num(2), t2)), t)
               h01 == Plus(Times(Num(-2), t3), Times(Num(3), t2))
               h11 == Minus(t3, t2)
               result ==
                 Plus(Plus(Plus(Times(h00, y[i]),
                                Times(Times(h10, h[i]), m[i])),
                           Times(h01, y[i + 1])),
                      Times(Times(h11, h[i]), m[i + 1]))
           IN  IF isFinite(result) THEN result ELSE y[i]

hermiteAt(x, y, tx) ==
  LET n == Len(x)
  IN  IF atOrBelow(tx, x[1]) THEN y[1]
      ELSE IF atOrAbove(tx, x[n]) THEN y[n]
      ELSE hermiteOn(x, y, findInterval(x, tx), tx)

\* every target mapped to 0, whatever the samples
allZero(y, targetX) == [ k \in DOMAIN targetX |-> Zero ]

\* n < 2: targetX.map(() => (n === 1 ? y[0] : 0))
degenerate(y, targetX) ==
  [ k \in DOMAIN targetX |-> IF Len(y) >= 1 THEN y[1] ELSE Zero ]

interpolatePCHIPMonotone(x, y, targetX) ==
  IF Len(x) < 2 THEN degenerate(y, targetX)
  ELSE [ k \in DOMAIN targetX |-> hermiteAt(x, y, targetX[k]) ]

(***************************************************************************)
(* interpolatePCHIP, natural cubic spline form (the one the chart imports) *)
(***************************************************************************)
\* the first sample's ordinate at every target
firstOrdinateAt(x, y, tx) == y[1]

\* n === 2: the straight line through the two samples
linearAt(x, y, tx) ==
  LET slope == Over(Minus(y[2], y[1]), Minus(x[2], x[1]))
  IN  IF atOrBelow(tx, x[1]) THEN y[1]
      ELSE IF atOrAbove(tx, x[2]) THEN y[2]
      ELSE Plus(y[1], Times(slope, Minus(tx, x[1])))

\* the tridiagonal system: sub-diagonal a, diagonal b, super-diagonal c and
\* right-hand side d, as first filled
system(x, y) ==
  LET n == Len(x)
      h == intervals(x)
      delta == secants(x, y)
      inner(i) == 1 < i /\ i < n
  IN  [ a |-> [ i \in 1..n |-> IF inner(i) THEN h[i - 1] ELSE Zero ],
        b |-> [ i \in 1..n |->
                  IF inner(i) THEN Times(Num(2), Plus(h[i - 1], h[i])) ELSE Num(1) ],
        c |-> [ i \in 1..n |-> IF inner(i) THEN h[i] ELSE Zero ],
        d |-> [ i \in 1..n |->
                  IF inner(i) THEN Times(Num(6), Minus(delta[i], delta[i - 1]))
                  ELSE Zero ] ]

\* forward elimination: b and d of row i after the loop has passed it
RECURSIVE eliminatedRow(_, _)
eliminatedRow(s, i) ==
  IF i = 1 THEN [ b |-> s.b[1], d |-> s.d[1] ]
  ELSE LET prev == eliminatedRow(s, i - 1)
       IN  IF prev.b = Zero THEN [ b |-> s.b[i], d |-> s.d[i] ]
           ELSE LET w == Over(s.a[i], prev.b)
                IN  [ b |-> Minus(s.b[i], Times(w, s.c[i - 1])),
                      d |-> Minus(s.d[i], Times(w, prev.d)) ]

eliminated(x, y) ==
  LET s == system(x, y)
  IN  [ i \in 1..Len(x) |-> eliminatedRow(s, i) ]

\* back substitution: the second derivative m[i]
RECURSIVE backSubstituted(_, _, _)
backSubstituted(s, row, i) ==
  IF row[i].b = Zero THEN Zero
  ELSE IF i = Len(row) THEN Over(row[i].d, row[i].b)
  ELSE Over(Minus(row[i].d, Times(s.c[i], backSubstituted(s, row, i + 1))), row[i].b)

secondDerivatives(x, y) ==
  LET s == system(x, y)
      row == eliminated(x, y)
  IN  [ i \in 1..Len(x) |-> backSubstituted(s, row, i) ]

\* the spline cubic of interval i at tx
splineOn(x, y, i, tx) ==
  LET h == intervals(x)
      delta == secants(x, y)
      m == secondDerivatives(x, y)
  IN  IF h[i] = Zero THEN y[i]
      ELSE LET t == Minus(tx, x[i])
               hi == h[i]
               a_coef == Over(Minus(m[i + 1], m[i]), Times(Num(6), hi))
               b_coef == Over(m[i], Num(2))
               c_coef == Minus(delta[i],
                               Over(Times(hi, Plus(Times(Num(2), m[i]), m[i + 1])),
                                    Num(6)))
               d_coef == y[i]
               result ==
                 Plus(Plus(Plus(Times(Times(Times(a_coef, t), t), t),
                                Times(Times(b_coef, t), t)),
                           Times(c_coef, t)),
                      d_coef)
           IN  IF isFinite(result) THEN result ELSE y[i]

splineAt(x, y, tx) ==
  LET n == Len(x)
  IN  IF atOrBelow(tx, x[1]) THEN y[1]
      ELSE IF atOrAbove(tx, x[n]) THEN y[n]
      ELSE splineOn(x, y, findInterval(x, tx), tx)

interpolatePCHIP(x, y, targetX) ==
  IF Len(x) < 2 THEN degenerate(y, targetX)
  ELSE IF Len(x) = 2 THEN [ k \in DOMAIN targetX |-> linearAt(x, y, targetX[k]) ]
  ELSE [ k \in DOMAIN targetX |-> splineAt(x, y, targetX[k]) ]

(***************************************************************************)
(* Both interpolators on every sample set of up to MaxSamples samples and  *)
(* every list of up to MaxTargets targets.  The abscissas are ordered with *)
(* the first below the last, as the chart passes them (sorted timestamps,  *)
(* range > 0); equal neighbours are kept.  Targets lie on the half-integer *)
(* grid from below the first abscissa to above the last.  Four unevenly    *)
(* spaced samples with every choice of ordinates are evaluated at each     *)
(* single target strictly inside their range, and so are four samples     *)
(* with an abscissa sampled twice.                                         *)
(***************************************************************************)
MaxSamples == 3
MaxTargets == 2
Abscissas == { 0, 1, 3 }
Ordinates == { 0, 2 }
ZigZagOrdinates == 0..2
TargetValues == { Frac(k, 2) : k \in { -1, 0, 1, 4, 6, 7 } }

Ordered(xs) ==
  /\ \A i \in 1..(Len(xs) - 1) : xs[i] <= xs[i + 1]
  /\ Len(xs) >= 2 => xs[1] < xs[Len(xs)]

Nums(s) == [ i \in DOMAIN s |-> Num(s[i]) ]

SampleSets ==
  UNION { { [x |-> Nums(xs), y |-> Nums(ys)] :
              xs \in { s \in [1..n -> Abscissas] : Ordered(s) },
              ys \in [1..n -> Ordinates] } : n \in 0..MaxSamples }

TargetLists == SeqsUpTo(TargetValues, MaxTargets)

\* x = [0, 10], y = [0, 100], target 5
lineExample == [x |-> Nums(<< 0, 10 >>), y |-> Nums(<< 0, 100 >>)]

\* x = [0, 1, 3, 4] with every y, and the targets inside (0, 4)
FourSampleSets ==
  { [x |-> Nums(<< 0, 1, 3, 4 >>), y |-> Nums(ys)] : ys \in [1..4 -> ZigZagOrdinates] }
InnerTargets == { Frac(k, 2) : k \in 1..7 }

\* x = [0, 1, 1, 3]: an abscissa sampled twice, with every y, and targets
\* below, at and above it
RepeatedSampleSets ==
  { [x |-> Nums(<< 0, 1, 1, 3 >>), y |-> Nums(ys)] : ys \in [1..4 -> ZigZagOrdinates] }
RepeatedTargets == { Frac(1, 2), Num(1), Num(2) }

Interpolators == { "interpolatePCHIPMonotone", "interpolatePCHIP" }

InterpolationInit ==
  /\ Unmounted
  /\ \/ \E fn \in Interpolators, s \in SampleSets, t \in TargetLists :
          call = [fn |-> fn, x |-> s.x, y |-> s.y, targetX |-> t]
     \/ \E fn \in Interpolators, s \in FourSampleSets, t \in InnerTargets :
          call = [fn |-> fn, x |-> s.x, y |-> s.y, targetX |-> << t >>]
     \/ \E fn \in Interpolators, s \in RepeatedSampleSets, t \in RepeatedTargets :
          call = [fn |-> fn, x |-> s.x, y |-> s.y, targetX |-> << t >>]
     \/ \E fn \in Interpolators :
          call = [fn |-> fn, x |-> lineExample.x, y |-> lineExample.y,
                  targetX |-> << Num(5) >>]
  /\ ret = << >>

MonotoneReturns ==
  /\ call.fn = "interpolatePCHIPMonotone"
  /\ ~Returned
  /\ ret' = << interpolatePCHIPMonotone(call.x, call.y, call.targetX) >>
  /\ UNCHANGED call
  /\ UNCHANGED wizard

SplineReturns ==
  /\ call.fn = "interpolatePCHIP"
  /\ ~Returned
  /\ ret' = << interpolatePCHIP(call.x, call.y, call.targetX) >>
  /\ UNCHANGED call
  /\ UNCHANGED wizard

InterpolationNext == MonotoneReturns \/ SplineReturns

InterpolationSpec == InterpolationInit /\ [][InterpolationNext]_vars

Interpolated == call.fn \in Interpolators /\ Returned

\* C14: with two or more samples, both interpolators return one ordinate per
\* target in target order, y[0] itself for every target at or below x[0] and
\* y[n-1] itself for every target at or above x[n-1].
C14_ClampedAtTheEnds ==
  (Interpolated /\ Len(call.x) >= 2) =>
    LET n == Len(call.x)
    IN  /\ Len(ret[1]) = Len(call.targetX)
        /\ \A k \in DOMAIN call.targetX :
             /\ Leq(call.targetX[k], call.x[1]) => ret[1][k] = call.y[1]
             /\ Leq(call.x[n], call.targetX[k]) => ret[1][k] = call.y[n]

\* the spline form has returned for a target below the first sample and one
\* above the last, with different ordinates at the two ends
C14_Witness ==
  /\ call.fn = "interpolatePCHIP"
  /\ call.x = Nums(<< 0, 1, 3 >>)
  /\ call.y = Nums(<< 2, 0, 0 >>)
  /\ call.targetX = << Frac(7, 2), Frac(-1, 2) >>
  /\ ret = << << Num(0), Num(2) >> >>

\* C15: with no sample both interpolators map every target to 0, with one
\* sample to y[0], whatever the targets.
C15_FewerThanTwoSamples ==
  (Interpolated /\ Len(call.x) < 2) =>
    /\ Len(ret[1]) = Len(call.targetX)
    /\ \A k \in DOMAIN call.targetX :
         ret[1][k] = IF Len(call.x) = 1 THEN call.y[1] ELSE Zero

\* the monotone form has returned y[0] twice for one sample
C15_Witness ==
  /\ call.fn = "interpolatePCHIPMonotone"
  /\ Len(call.x) = 1
  /\ call.y = << Num(2) >>
  /\ call.targetX = << Frac(-1, 2), Num(3) >>
  /\ ret = << << Num(2), Num(2) >> >>

StrictlyIncreasing(x) == \A i \in 1..(Len(x) - 1) : Less(x[i], x[i + 1])

\* the secants on the two sides of sample i have opposite sign
SignChangeAt(x, y, i) ==
  /\ 1 < i /\ i < Len(x)
  /\ Less(Times(secants(x, y)[i - 1], secants(x, y)[i]), Zero)

Between(v, a, b) == (Leq(a, v) /\ Leq(v, b)) \/ (Leq(b, v) /\ Leq(v, a))

\* C16: for strictly increasing x the monotone form returns, for a target in
\* an interval [x[i], x[i+1]] with a secant sign change at one of its ends, a
\* value between y[i] and y[i+1].
C16_NoOvershootAtSignChange ==
  (call.fn = "interpolatePCHIPMonotone" /\ Returned /\ StrictlyIncreasing(call.x)) =>
    \A k \in DOMAIN call.targetX, i \in 1..(Len(call.x) - 1) :
      ( /\ Leq(call.x[i], call.targetX[k])
        /\ Leq(call.targetX[k], call.x[i + 1])
        /\ SignChangeAt(call.x, call.y, i) \/ SignChangeAt(call.x, call.y, i + 1) )
      => Between(ret[1][k], call.y[i], call.y[i + 1])

\* the rise 0, 1, 2 followed by a fall to 1, evaluated strictly inside the
\* interval that ends at the peak: its left slope is the harmonic mean of the
\* secants, its right slope 0, and the value lies strictly between 1 and 2
C16_Witness ==
  /\ call.fn = "interpolatePCHIPMonotone"
  /\ call.x = Nums(<< 0, 1, 3, 4 >>)
  /\ call.y = Nums(<< 0, 1, 2, 1 >>)
  /\ call.targetX = << Num(2) >>
  /\ Returned
  /\ slopes(call.x, call.y)[2] \notin { Zero, Num(1), Frac(1, 2) }
  /\ slopes(call.x, call.y)[3] = Zero
  /\ Less(Num(1), ret[1][1]) /\ Less(ret[1][1], Num(2))

\* C17: with exactly two samples the spline form returns, for every target
\* strictly between x[0] and x[1], the point of the straight line through the
\* samples, y[0] + (y[1]-y[0])/(x[1]-x[0]) * (target - x[0]); for x = [0, 10],
\* y = [0, 100] and target 5 that is 50.
C17_TwoSamplesLinear ==
  (call.fn = "interpolatePCHIP" /\ Returned /\ Len(call.x) = 2) =>
    /\ \A k \in DOMAIN call.targetX :
         (Less(call.x[1], call.targetX[k]) /\ Less(call.targetX[k], call.x[2])) =>
           /\ isFinite(ret[1][k])
           /\ Times(Minus(ret[1][k], call.y[1]), Minus(call.x[2], call.x[1]))
                = Times(Minus(call.y[2], call.y[1]), Minus(call.targetX[k], call.x[1]))
    /\ (call.x = lineExample.x /\ call.y = lineExample.y /\ call.targetX = << Num(5) >>)
         => ret[1] = << Num(50) >>

\* x = [0, 10], y = [0, 100], target 5 has returned 50
C17_Witness ==
  /\ call.fn = "interpolatePCHIP"
  /\ call.x = lineExample.x
  /\ call.y = lineExample.y
  /\ call.targetX = << Num(5) >>
  /\ ret = << << Num(50) >> >>

(***************************************************************************)
(* calculateBounds.  A JSON value inside coordinates is a number, an array *)
(* or undefined; a bound is a finite number or one of the two infinities.  *)
(***************************************************************************)
Undefined == [k |-> "undef", n |-> 0, items |-> << >>]
Number(v) == [k |-> "num", n |-> v, items |-> << >>]
Array(items) == [k |-> "arr", n |-> 0, items |-> items]

\* an extended number: << -1, 0 >> is -Infinity, << 0, v >> is v, << 1, 0 >> Infinity
Infinity == << 1, 0 >>
NegInfinity == << -1, 0 >>
Finite(v) == << 0, v >>
Below(a, b) == a[1] < b[1] \/ (a[1] = b[1] /\ a[2] < b[2])
MathMin(a, b) == IF Below(b, a) THEN b ELSE a
MathMax(a, b) == IF Below(a, b) THEN b ELSE a

\* let minLat = Infinity, minLng = Infinity, maxLat = -Infinity, maxLng = -Infinity
InitialBounds ==
  [minLat |-> Infinity, minLng |-> Infinity, maxLat |-> NegInfinity, maxLng |-> NegInfinity]

\* the pair with longitude and latitude taken the other way round
FoldPairSwapped(b, lng, lat) ==
  [minLat |-> MathMin(b.minLat, Finite(lng)), maxLat |-> MathMax(b.maxLat, Finite(lng)),
   minLng |-> MathMin(b.minLng, Finite(lat)), maxLng |-> MathMax(b.maxLng, Finite(lat))]

\* the fold of one [lng, lat] pair into the running bounds
FoldPair(b, lng, lat) ==
  [minLat |-> MathMin(b.minLat, Finite(lat)), maxLat |-> MathMax(b.maxLat, Finite(lat)),
   minLng |-> MathMin(b.minLng, Finite(lng)), maxLng |-> MathMax(b.maxLng, Finite(lng))]

\* coords.length >= 2 && typeof coords[0] === 'number' && typeof coords[1] === 'number'
IsPair(coords) ==
  /\ Len(coords.items) >= 2
  /\ coords.items[1].k = "num"
  /\ coords.items[2].k = "num"

\* the geometries collected from the input
CollectGeometries(geojson) ==
  IF geojson.type = "FeatureCollection"
  THEN SelectSeq([ i \in DOMAIN geojson.features |-> geojson.features[i].geometry ],
                 LAMBDA g : g.type # "null")
  ELSE IF geojson.type = "Feature"
  THEN (IF geojson.geometry.type # "null" THEN << geojson.geometry >> ELSE << >>)
  ELSE IF geojson.coordinates.k = "arr" THEN << geojson >>
  ELSE << >>

\* while (stack.length > 0) { const coords = stack.pop(); ... }
RECURSIVE DrainStack(_, _)
DrainStack(stack, b) ==
  IF stack = << >> THEN b
  ELSE LET coords == stack[Len(stack)]
           rest == SubSeq(stack, 1, Len(stack) - 1)
       IN  IF coords.k # "arr" THEN DrainStack(rest, b)
           ELSE IF IsPair(coords)
           THEN DrainStack(rest, FoldPair(b, coords.items[1].n, coords.items[2].n))
           ELSE DrainStack(rest \o coords.items, b)

\* for (const geometry of geometries) { ... }
RECURSIVE ProcessGeometries(_, _)
ProcessGeometries(geometries, b) ==
  IF geometries = << >> THEN b
  ELSE LET geometry == Head(geometries)
       IN  IF geometry.coordinates.k # "arr"
           THEN ProcessGeometries(Tail(geometries), b)
           ELSE ProcessGeometries(Tail(geometries),
                                  DrainStack(<< geometry.coordinates >>, b))

calculateBounds(geojson) ==
  LET b == ProcessGeometries(CollectGeometries(geojson), InitialBounds)
  IN  << b.minLat, b.minLng, b.maxLat, b.maxLng >>

(***************************************************************************)
(* calculateBounds on single geometries, single features and feature       *)
(* collections.  A position is [lng, lat] or [lng, lat, altitude]; a       *)
(* geometry is a Point, a LineString of up to MaxPositions positions or a  *)
(* Polygon of up to MaxRings rings; a feature may have a null geometry or  *)
(* a geometry without coordinates.                                         *)
(***************************************************************************)
MaxPositions == 2
MaxRings == 1
MaxFeatures == 2
Lngs == { -1, 2 }
Lats == { 0, 3 }
Positions ==
  { Array(<< Number(lng), Number(lat) >>) : lng \in Lngs, lat \in Lats }
    \cup { Array(<< Number(2), Number(0), Number(9) >>) }

Lines == { Array(ps) : ps \in SeqsUpTo(Positions, MaxPositions) }
Rings == { Array(rs) : rs \in SeqsUpTo(Lines, MaxRings) }

Geometry(type, coordinates) == [type |-> type, coordinates |-> coordinates]
NullGeometry == [type |-> "null", coordinates |-> Undefined]

Geometries ==
  { Geometry("Point", p) : p \in Positions }
    \cup { Geometry("LineString", l) : l \in Lines }
    \cup { Geometry("Polygon", r) : r \in Rings }
    \cup { Geometry("GeometryCollection", Undefined) }

\* the geometries the features of a collection are drawn from
FeatureGeometries ==
  { Geometry("Point", p) : p \in Positions }
    \cup { Geometry("Polygon", Array(<< Array(<< >>) >>)),
           Geometry("GeometryCollection", Undefined), NullGeometry }

GeoJsonInputs ==
  Geometries
    \cup { Feature(<< >>, g) : g \in Geometries \cup { NullGeometry } }
    \cup { FeatureCollection(fs) :
             fs \in SeqsUpTo({ Feature(<< >>, g) : g \in FeatureGeometries }, MaxFeatures) }

BoundsInit ==
  /\ Unmounted
  /\ \E g \in GeoJsonInputs : call = [fn |-> "calculateBounds", geojson |-> g]
  /\ ret = << >>

CalculateBoundsReturns ==
  /\ call.fn = "calculateBounds"
  /\ ~Returned
  /\ ret' = << calculateBounds(call.geojson) >>
  /\ UNCHANGED call
  /\ UNCHANGED wizard

BoundsSpec == BoundsInit /\ [][CalculateBoundsReturns]_vars

\* the [lng, lat] pairs below a coordinates value, nesting by nesting
RECURSIVE PairsBelow(_)
PairsBelow(c) ==
  IF c.k # "arr" THEN {}
  ELSE IF IsPair(c) THEN { << c.items[1].n, c.items[2].n >> }
  ELSE UNION { PairsBelow(c.items[i]) : i \in DOMAIN c.items }

\* the pairs of every geometry of a single geometry, feature or collection
PairsOf(geojson) ==
  IF geojson.type = "FeatureCollection"
  THEN UNION { PairsBelow(geojson.features[i].geometry.coordinates) :
                 i \in DOMAIN geojson.features }
  ELSE IF geojson.type = "Feature" THEN PairsBelow(geojson.geometry.coordinates)
  ELSE PairsBelow(geojson.coordinates)

Least(S) == CHOOSE v \in S : \A w \in S : v <= w
Greatest(S) == CHOOSE v \in S : \A w \in S : w <= v

\* C18: calculateBounds returns [minLat, minLng, maxLat, maxLng], the least
\* and greatest latitude and longitude over every [lng, lat] pair of every
\* geometry of the input, with min <= max on both axes when there is a pair,
\* and [+inf, +inf, -inf, -inf] exactly when there is none.
C18_BoundsOfEveryPair ==
  (call.fn = "calculateBounds" /\ Returned) =>
    LET pairs == PairsOf(call.geojson)
        lngs == { p[1] : p \in pairs }
        lats == { p[2] : p \in pairs }
        sentinel == << Infinity, Infinity, NegInfinity, NegInfinity >>
    IN  /\ pairs # {} =>
             /\ ret[1] = << Finite(Least(lats)), Finite(Least(lngs)),
                            Finite(Greatest(lats)), Finite(Greatest(lngs)) >>
             /\ ~Below(ret[1][3], ret[1][1])
             /\ ~Below(ret[1][4], ret[1][2])
        /\ (ret[1] = sentinel) <=> (pairs = {})

\* a collection of two point features has returned the box around both
C18_Witness ==
  /\ call.fn = "calculateBounds"
  /\ call.geojson.type = "FeatureCollection"
  /\ Len(call.geojson.features) = 2
  /\ ret = << << Finite(0), Finite(-1), Finite(3), Finite(2) >> >>

(***************************************************************************)
(* parseCSV, in the wizard (headers and rows) and in the data loader (rows *)
(* only).  A row maps each header name to a string.                        *)
(***************************************************************************)
Whitespace == { " ", "\t", "\r", "\n" }

\* String.prototype.trim
RECURSIVE TrimStart(_)
TrimStart(s) == IF s # Empty /\ Head(s) \in Whitespace THEN TrimStart(Tail(s)) ELSE s
RECURSIVE TrimEnd(_)
TrimEnd(s) ==
  IF s # Empty /\ s[Len(s)] \in Whitespace THEN TrimEnd(SubSeq(s, 1, Len(s) - 1)) ELSE s
Trim(s) == TrimStart(TrimEnd(s))

\* text.split('\n').filter(line => line.trim())
nonBlankLines(text) == SelectSeq(Split(text, "\n"), LAMBDA line : Trim(line) # Empty)

\* lines[0].includes('\t') ? '\t' : ','
delimiterOf(firstLine) == IF "\t" \in SeqRange(firstLine) THEN "\t" ELSE ","

\* lines[0].split(delimiter).map(h => h.trim())
headersOf(firstLine) ==
  LET parts == Split(firstLine, delimiterOf(firstLine))
  IN  [ i \in DOMAIN parts |-> Trim(parts[i]) ]

\* headers.forEach((h, i) => { row[h] = values[i]?.trim() || ''; }): a header
\* name met again overwrites the entry
rowOf(headers, values) ==
  [ h \in SeqRange(headers) |->
      LET i == CHOOSE j \in DOMAIN headers :
                 headers[j] = h /\ \A k \in DOMAIN headers : headers[k] = h => k <= j
      IN  IF i <= Len(values) THEN Trim(values[i]) ELSE Empty ]

rowsOf(lines) ==
  LET delimiter == delimiterOf(lines[1])
      headers == headersOf(lines[1])
  IN  [ k \in 1..(Len(lines) - 1) |-> rowOf(headers, Split(lines[k + 1], delimiter)) ]

\* the wizard's parser
parseCSV(text) ==
  LET lines == nonBlankLines(text)
  IN  IF Len(lines) < 1 THEN [headers |-> << >>, rows |-> << >>]
      ELSE [headers |-> headersOf(lines[1]), rows |-> rowsOf(lines)]

\* the data loader's parser
loaderParseCSV(text) ==
  LET lines == nonBlankLines(text)
  IN  IF Len(lines) < 2 THEN << >> ELSE rowsOf(lines)

(***************************************************************************)
(* Both parsers on texts of a header line and up to MaxDataLines further   *)
(* lines, joined by line feeds.                                            *)
(***************************************************************************)
MaxDataLines == 2

Chars(str) == [ i \in 1..Len(str) |-> str[i] ]

HeaderLines ==
  { << "a", ",", "b" >>, << "a", "\t", "b" >>, << " ", "a", " ", ",", "b" >>,
    << "a", ",", "b", "\t" >>, << "a", ",", "a" >>, << "a" >>, << " " >>, Empty }

DataLines ==
  { << "1", ",", "2" >>, << "1", "\t", "2" >>, << " ", "1", " ", ",", "2", "\r" >>,
    << "1" >>, << ",", "2" >>, << "1", ",", "2", ",", "3" >>, << "\t" >>, Empty }

RECURSIVE JoinLines(_)
JoinLines(lines) ==
  IF Len(lines) = 1 THEN lines[1]
  ELSE lines[1] \o << "\n" >> \o JoinLines(Tail(lines))

CsvTexts ==
  { JoinLines(<< h >> \o d) : h \in HeaderLines, d \in SeqsUpTo(DataLines, MaxDataLines) }

CsvParsers == { "parseCSV", "loaderParseCSV" }

CsvInit ==
  /\ Unmounted
  /\ \E fn \in CsvParsers, t \in CsvTexts : call = [fn |-> fn, text |-> t]
  /\ ret = << >>

ParseCSVReturns ==
  /\ call.fn = "parseCSV"
  /\ ~Returned
  /\ ret' = << parseCSV(call.text).rows >>
  /\ UNCHANGED call
  /\ UNCHANGED wizard

LoaderParseCSVReturns ==
  /\ call.fn = "loaderParseCSV"
  /\ ~Returned
  /\ ret' = << loaderParseCSV(call.text) >>
  /\ UNCHANGED call
  /\ UNCHANGED wizard

CsvNext == ParseCSVReturns \/ LoaderParseCSVReturns

CsvSpec == CsvInit /\ [][CsvNext]_vars

\* the lines of a text with a character that is no white space, in order
LinesWithContent(text) ==
  LET all == Split(text, "\n")
      kept == { i \in DOMAIN all : \E j \in DOMAIN all[i] : all[i][j] \notin Whitespace }
      nth[k \in 1..Cardinality(kept)] ==
        CHOOSE i \in kept : Cardinality({ j \in kept : j < i }) = k - 1
  IN  [ k \in 1..Cardinality(kept) |-> all[nth[k]] ]

\* C19: the parser returns one row per non-blank line after the header line,
\* in input order; each row maps every header to the trimmed field at the
\* header's position, or to the empty string when the line has no field
\* there; fields are delimited by tabs if the header line contains a tab and
\* by commas otherwise; a text of fewer than two non-blank lines gives no row.
C19_RowsFollowHeaders ==
  (call.fn \in CsvParsers /\ Returned) =>
    LET lines == LinesWithContent(call.text)
        rows == ret[1]
    IN  IF Len(lines) < 2 THEN rows = << >>
        ELSE LET delimiter == IF \E j \in DOMAIN lines[1] : lines[1][j] = "\t"
                              THEN "\t" ELSE ","
                 names == Split(lines[1], delimiter)
             IN  /\ Len(rows) = Len(lines) - 1
                 /\ \A k \in DOMAIN rows :
                      LET fields == Split(lines[k + 1], delimiter)
                      IN  \A i \in DOMAIN names :
                            /\ Trim(names[i]) \in DOMAIN rows[k]
                            /\ rows[k][Trim(names[i])] =
                                 IF i <= Len(fields) THEN Trim(fields[i]) ELSE Empty

(***************************************************************************)
(* autoMapColumns on every list of up to MaxColumns discovered columns and *)
(* every file kind.                                                        *)
(***************************************************************************)
MaxColumns == 3

ColumnNames ==
  { sId, sWellId, << "L", "A", "T" >>, sLatitude, sLng, sAquiferId,
    << "A" >> \o Tail(sAquiferName), sDate, sLevel, << "x" >> }

ColumnLists == SeqsUpTo(ColumnNames, MaxColumns)

AutoMapInit ==
  /\ Unmounted
  /\ \E cs \in ColumnLists, t \in FileTypes :
       call = [fn |-> "autoMapColumns", columns |-> cs, fileType |-> t]
  /\ ret = << >>

AutoMapColumnsReturns ==
  /\ call.fn = "autoMapColumns"
  /\ ~Returned
  /\ ret' = << autoMapColumns(call.columns, call.fileType) >>
  /\ UNCHANGED call
  /\ UNCHANGED wizard

AutoMapSpec == AutoMapInit /\ [][AutoMapColumnsReturns]_vars

\* the canonical fields of a kind
CanonicalFields(fileType) ==
  CASE fileType = "aquifer" -> { "aquifer_id", "aquifer_name" }
    [] fileType = "wells" -> { "well_id", "lat", "long", "aquifer_id" }
    [] fileType = "waterLevels" -> { "well_id", "date", "wte", "aquifer_id" }
    [] OTHER -> {}

\* the synonym rule of a field of a kind, on a lowercased column name
Synonym(fileType, field, c) ==
  CASE field = "aquifer_id" /\ fileType = "aquifer" -> RuleAquiferIdOfAquifer(c)
    [] field = "aquifer_id" /\ fileType # "aquifer" -> RuleAquiferId(c)
    [] field = "aquifer_name" -> RuleAquiferName(c)
    [] field = "well_id" -> RuleWellId(c)
    [] field = "lat" -> RuleLat(c)
    [] field = "long" -> RuleLong(c)
    [] field = "date" -> RuleDate(c)
    [] field = "wte" -> RuleWte(c)

\* C20: autoMapColumns maps each canonical field of the kind to the first
\* column, in discovered order, whose lowercased name satisfies the field's
\* synonym rule, and leaves it unset when none does; a mapped value is a
\* discovered column name; the region kind gives the empty mapping; the
\* mapping is the one any call with the same columns and kind returns.
C20_FirstMatchingColumn ==
  (call.fn = "autoMapColumns" /\ Returned) =>
    LET mapping == ret[1]
        columns == call.columns
        kind == call.fileType
    IN  /\ DOMAIN mapping = CanonicalFields(kind)
        /\ kind = "region" => mapping = << >>
        /\ \A field \in CanonicalFields(kind) :
             LET matches == { i \in DOMAIN columns :
                                Synonym(kind, field, ToLowerCase(columns[i])) }
             IN  /\ matches = {} => mapping[field] = Empty
                 /\ matches # {} =>
                      /\ mapping[field] # Empty
                      /\ mapping[field] \in SeqRange(columns)
                      /\ \E i \in matches :
                           /\ mapping[field] = columns[i]
                           /\ \A j \in matches : i <= j
        /\ mapping = autoMapColumns(columns, kind)

\* a wells list with two latitude columns has returned the first of them, and
\* no longitude
C20_Witness ==
  /\ call.fn = "autoMapColumns"
  /\ call.fileType = "wells"
  /\ call.columns = << << "x" >>, sLatitude, << "L", "A", "T" >> >>
  /\ Returned
  /\ ret[1].lat = sLatitude
  /\ ret[1].long = Empty

(***************************************************************************)
(* services/dataLoader.ts: the loader of the installed data.               *)
(*                                                                         *)
(* parseFloat on the strings a cell of these files holds here: leading     *)
(* white space, an optional sign, then the word Infinity or the longest    *)
(* run of decimal digits; anything else is NaN.  (No cell here has a       *)
(* decimal point or an exponent.)  A number is a record: finite with its   *)
(* integer value, infinite with its sign, or NaN.                          *)
(***************************************************************************)
NaN == [k |-> "nan", n |-> 0]
Float(n) == [k |-> "fin", n |-> n]
SignedInfinity(sign) == [k |-> "inf", n |-> sign]

isNaN(v) == v.k = "nan"

sInfinity == << "I","n","f","i","n","i","t","y" >>

StartsWith(s, prefix) ==
  Len(s) >= Len(prefix) /\ SubSeq(s, 1, Len(prefix)) = prefix

RECURSIVE DigitRun(_)
DigitRun(s) ==
  IF s # Empty /\ Head(s) \in Digits THEN << Head(s) >> \o DigitRun(Tail(s)) ELSE Empty

DecimalDigits == << "0","1","2","3","4","5","6","7","8","9" >>

DigitValue(d) == (CHOOSE i \in DOMAIN DecimalDigits : DecimalDigits[i] = d) - 1

RECURSIVE Decimal(_)
Decimal(digits) ==
  IF digits = Empty THEN 0
  ELSE 10 * Decimal(SubSeq(digits, 1, Len(digits) - 1)) + DigitValue(digits[Len(digits)])

parseFloat(s) ==
  LET t == TrimStart(s)
      signed == t # Empty /\ Head(t) \in { "-", "+" }
      sign == IF t # Empty /\ Head(t) = "-" THEN -1 ELSE 1
      body == IF signed THEN Tail(t) ELSE t
      run == DigitRun(body)
  IN  IF StartsWith(body, sInfinity) THEN SignedInfinity(sign)
      ELSE IF run = Empty THEN NaN
      ELSE Float(sign * Decimal(run))

\* row['key'] || fallback: a missing column and an empty cell both fall back
Cell(row, key, fallback) ==
  IF key \in DOMAIN row /\ row[key] # Empty THEN row[key] ELSE fallback

sZero == << "0" >>
sWellName == << "w","e","l","l","_","n","a","m","e" >>
sGse == << "g","s","e" >>

\* the answer of a fetch: a response that is ok and its body, a response that
\* is not ok, or a rejection (of the fetch or of reading the body)
Ok(body) == [k |-> "ok", body |-> body]
NotOk(body) == [k |-> "notOk", body |-> body]
Throws(body) == [k |-> "throws", body |-> body]

WellOf(row, regionId) ==
  LET wellId == Cell(row, sWellId, Empty)
  IN  [ id |-> wellId,
        name |-> Cell(row, sWellName, wellId),
        lat |-> parseFloat(Cell(row, sLat, sZero)),
        lng |-> parseFloat(Cell(row, sLong, sZero)),
        gse |-> parseFloat(Cell(row, sGse, sZero)),
        aquiferId |-> Cell(row, sAquiferId, Empty),
        aquiferName |-> Cell(row, sAquiferName, Empty),
        regionId |-> regionId ]

WellKept(w) ==
  w.id # Empty /\ ~isNaN(w.lat) /\ ~isNaN(w.lng) /\ w.lat # Float(0) /\ w.lng # Float(0)

RECURSIVE KeptWells(_, _)
KeptWells(rows, regionId) ==
  IF rows = << >> THEN << >>
  ELSE LET w == WellOf(Head(rows), regionId)
       IN  (IF WellKept(w) THEN << w >> ELSE << >>) \o KeptWells(Tail(rows), regionId)

loadWells(response, regionId) ==
  IF response.k = "ok" THEN KeptWells(loaderParseCSV(response.body), regionId) ELSE << >>

MeasurementOf(row) ==
  [ wellId |-> Cell(row, sWellId, Empty),
    wellName |-> Cell(row, sWellName, Empty),
    date |-> Cell(row, sDate, Empty),
    wte |-> parseFloat(Cell(row, sWte, sZero)),
    aquiferId |-> Cell(row, sAquiferId, Empty) ]

MeasurementKept(m) == m.wellId # Empty /\ m.date # Empty /\ ~isNaN(m.wte)

RECURSIVE KeptMeasurements(_)
KeptMeasurements(rows) ==
  IF rows = << >> THEN << >>
  ELSE LET m == MeasurementOf(Head(rows))
       IN  (IF MeasurementKept(m) THEN << m >> ELSE << >>) \o KeptMeasurements(Tail(rows))

loadMeasurements(response) ==
  IF response.k = "ok" THEN KeptMeasurements(loaderParseCSV(response.body)) ELSE << >>

\* the keys of a Map in insertion order: the first occurrence of each
RECURSIVE FirstOccurrences(_)
FirstOccurrences(keys) ==
  IF keys = << >> THEN << >>
  ELSE LET front == FirstOccurrences(SubSeq(keys, 1, Len(keys) - 1))
           last == keys[Len(keys)]
       IN  IF last \in SeqRange(front) THEN front ELSE front \o << last >>

sUnknown == << "u","n","k","n","o","w","n" >>
sAquiferPrefix == << "A","q","u","i","f","e","r"," " >>

featureAquiferId(feature) ==
  LET v == Prop(feature, sAquiferId)
  IN  IF Truthy(v) THEN JsToString(v) ELSE sUnknown

featureAquiferName(feature) ==
  LET v == Prop(feature, sAquiferName)
  IN  IF Truthy(v) THEN JsToString(v) ELSE sAquiferPrefix \o featureAquiferId(feature)

\* the aquifers of the geometry file: one per aquifer_id, named by its first feature
aquifersOfFeatures(features, regionId) ==
  LET ids == FirstOccurrences([ i \in DOMAIN features |-> featureAquiferId(features[i]) ])
      first(id) == CHOOSE i \in DOMAIN features :
                     /\ featureAquiferId(features[i]) = id
                     /\ \A j \in 1..(i - 1) : featureAquiferId(features[j]) # id
  IN  [ i \in DOMAIN ids |->
          [ id |-> ids[i], name |-> featureAquiferName(features[first(ids[i])]),
            regionId |-> regionId ] ]

\* the fallback: one aquifer per aquifer reference of the wells, named by the first well
aquifersOfWells(wells, regionId) ==
  LET referring == SelectSeq(wells, LAMBDA w : w.aquiferId # Empty)
      ids == FirstOccurrences([ i \in DOMAIN referring |-> referring[i].aquiferId ])
      first(id) == CHOOSE i \in DOMAIN referring :
                     /\ referring[i].aquiferId = id
                     /\ \A j \in 1..(i - 1) : referring[j].aquiferId # id
  IN  [ i \in DOMAIN ids |->
          [ id |-> ids[i], name |-> referring[first(ids[i])].aquiferName,
            regionId |-> regionId ] ]

loadAquifers(regionId, response, wells) ==
  IF response.k = "throws" THEN << >>
  ELSE LET fromFile == IF response.k = "ok"
                       THEN aquifersOfFeatures(FeaturesOf(response.body), regionId)
                       ELSE << >>
       IN  IF fromFile = << >> THEN aquifersOfWells(wells, regionId) ELSE fromFile

loadRegionManifest(response) ==
  IF response.k = "ok" THEN response.body ELSE << >>
(***************************************************************************)
(* loadAllData, one action per await.  The locals of the call live in      *)
(* call: the folders of the manifest, the index k of the folder being      *)
(* loaded, its wells, and the four lists being filled.  call.server is     *)
(* what the server answers: the manifest, and for the k-th folder of the   *)
(* manifest its four files.  Of a region and an aquifer the model keeps    *)
(* the identifying fields (geojson and bounds are left out).               *)
(***************************************************************************)
MaxFolders == 1
MaxLoaderRows == 1

ManifestSettles ==
  /\ call.fn = "loadAllData"
  /\ call.pc = "manifest"
  /\ LET folders == loadRegionManifest(call.server.manifest)
     IN  call' = [call EXCEPT !.folders = folders,
                              !.pc = IF folders = << >> THEN "return" ELSE "region"]
  /\ UNCHANGED ret
  /\ UNCHANGED wizard

RegionSettles ==
  /\ call.fn = "loadAllData"
  /\ call.pc = "region"
  /\ LET folder == call.folders[call.k]
         response == call.server.files[call.k].region
         loaded == IF response.k = "ok"
                   THEN << [id |-> folder.id, name |-> folder.name] >>
                   ELSE << >>
     IN  call' = [call EXCEPT !.regions = @ \o loaded, !.pc = "wells"]
  /\ UNCHANGED ret
  /\ UNCHANGED wizard

WellsSettle ==
  /\ call.fn = "loadAllData"
  /\ call.pc = "wells"
  /\ LET folder == call.folders[call.k]
         wells == loadWells(call.server.files[call.k].wells, folder.id)
     IN  call' = [call EXCEPT !.wells = wells, !.allWells = @ \o wells,
                              !.pc = "aquifers"]
  /\ UNCHANGED ret
  /\ UNCHANGED wizard

AquifersSettle ==
  /\ call.fn = "loadAllData"
  /\ call.pc = "aquifers"
  /\ LET folder == call.folders[call.k]
         aquifers == loadAquifers(folder.id, call.server.files[call.k].aquifers, call.wells)
     IN  call' = [call EXCEPT !.allAquifers = @ \o aquifers, !.pc = "measurements"]
  /\ UNCHANGED ret
  /\ UNCHANGED wizard

MeasurementsSettle ==
  /\ call.fn = "loadAllData"
  /\ call.pc = "measurements"
  /\ LET measurements == loadMeasurements(call.server.files[call.k].levels)
     IN  call' = [call EXCEPT !.allMeasurements = @ \o measurements,
                              !.k = @ + 1,
                              !.pc = IF call.k < Len(call.folders) THEN "region"
                                     ELSE "return"]
  /\ UNCHANGED ret
  /\ UNCHANGED wizard

LoadAllDataReturns ==
  /\ call.fn = "loadAllData"
  /\ call.pc = "return"
  /\ ret' = << [ regions |-> call.regions, aquifers |-> call.allAquifers,
                 wells |-> call.allWells, measurements |-> call.allMeasurements ] >>
  /\ call' = [call EXCEPT !.pc = "done"]
  /\ UNCHANGED wizard

\* what the server holds: files of a header line and a few rows
RECURSIVE JoinCells(_)
JoinCells(cells) ==
  IF Len(cells) = 1 THEN cells[1]
  ELSE cells[1] \o << "," >> \o JoinCells(Tail(cells))

LoaderWellIds == { Empty, << "A" >> }
LoaderCoords ==
  { << << "1" >>, << "1" >> >>, << << "0" >>, << "1" >> >>, << << "1" >>, << "-", "0" >> >>,
    << Empty, << "2" >> >>, << << "x" >>, << "1" >> >>, << << "-", "1" >>, << "1", "2" >> >>,
    << sInfinity, << "1" >> >>, << << "1" >>, << "-" >> \o sInfinity >> }
LoaderAquiferRefs == { Empty, << "X" >> }

WellsLines ==
  { JoinCells(<< id, c[1], c[2], aq >>) :
      id \in LoaderWellIds, c \in LoaderCoords, aq \in LoaderAquiferRefs }

WellsTexts(n) ==
  { JoinLines(<< JoinCells(<< sWellId, sLat, sLong, sAquiferId >>) >> \o rows) :
      rows \in SeqsUpTo(WellsLines, n) }

LevelsLines ==
  { JoinCells(<< id, date, wte >>) :
      id \in { Empty, << "A" >>, << "B" >> },
      date \in { Empty, << "d" >> },
      wte \in { << "7" >>, << "x" >> } }

LevelsTexts(n) ==
  { JoinLines(<< JoinCells(<< sWellId, sDate, sWte >>) >> \o rows) :
      rows \in SeqsUpTo(LevelsLines, n) }

CsvResponses(texts) ==
  { Ok(t) : t \in texts } \cup { NotOk(Empty), Throws(Empty) }

NoFeatures == FeatureCollection(<< >>)

AquiferResponses ==
  { Ok(NoFeatures), NotOk(NoFeatures), Throws(NoFeatures),
    Ok(FeatureCollection(<< Feature((sAquiferId :> JsStr(<< "Y" >>)), NullGeometry) >>)),
    Ok(Feature((sAquiferName :> JsStr(<< "n" >>)), NullGeometry)) }

RegionResponses == { Ok(Empty), NotOk(Empty), Throws(Empty) }

FolderFiles(n) ==
  [ region : RegionResponses, wells : CsvResponses(WellsTexts(n)),
    aquifers : AquiferResponses, levels : CsvResponses(LevelsTexts(n)) ]

FolderIds == << << "a" >>, << "b" >>, << "c" >> >>

Manifests(folders) ==
  { [ i \in 1..n |-> ManifestEntry(FolderIds[i], << "R" >>) ] : n \in 0..folders }

\* the servers with up to so many folders, each file of up to so many rows
Servers(folders, rows) ==
  { [manifest |-> NotOk(<< >>), files |-> << >>],
    [manifest |-> Throws(<< >>), files |-> << >>] }
  \cup UNION { { [manifest |-> Ok(m), files |-> f] : f \in [DOMAIN m -> FolderFiles(rows)] } :
               m \in Manifests(folders) }

LoaderInit ==
  /\ Unmounted
  /\ \E server \in Servers(MaxFolders, MaxLoaderRows) :
       call = [ fn |-> "loadAllData", server |-> server, pc |-> "manifest",
                folders |-> << >>, k |-> 1, wells |-> << >>, regions |-> << >>,
                allAquifers |-> << >>, allWells |-> << >>, allMeasurements |-> << >> ]
  /\ ret = << >>

LoaderNext ==
  \/ ManifestSettles
  \/ RegionSettles
  \/ WellsSettle
  \/ AquifersSettle
  \/ MeasurementsSettle
  \/ LoadAllDataReturns

LoaderSpec == LoaderInit /\ [][LoaderNext]_vars

Dataset == ret[1]

IdsOf(items) == { items[i].id : i \in DOMAIN items }

\* C21: every measurement of the dataset loadAllData returns has the id of a
\* well accepted into the same dataset; rows that reference an unknown or a
\* rejected well are not stored.
C21_MeasurementsReferenceWells ==
  (call.fn = "loadAllData" /\ Returned) =>
    \A i \in DOMAIN Dataset.measurements :
      Dataset.measurements[i].wellId \in IdsOf(Dataset.wells)

\* C22: every aquifer of the dataset loadAllData returns has the id of a
\* region of the same dataset as its regionId, whatever the fetches of the
\* region's files answered.
C22_AquifersReferenceRegions ==
  (call.fn = "loadAllData" /\ Returned) =>
    \A i \in DOMAIN Dataset.aquifers :
      Dataset.aquifers[i].regionId \in IdsOf(Dataset.regions)

FiniteNonZero(v) == v.k = "fin" /\ v.n # 0

\* C23: every well loadWells accepts has a non-empty id and a latitude and a
\* longitude that are finite and not zero.
C23_AcceptedWellsAreLocated ==
  call.fn = "loadAllData" =>
    \A i \in DOMAIN call.wells :
      /\ call.wells[i].id # Empty
      /\ FiniteNonZero(call.wells[i].lat)
      /\ FiniteNonZero(call.wells[i].lng)

(***************************************************************************)
(* The warning about the wells' aquifer column.                            *)
(***************************************************************************)
AquiferColumnWarningIndexes ==
  { i \in DOMAIN validation.warnings : validation.warnings[i].kind = "noAquiferColumn" }

\* C24: when validateData reaches its referential checks, the warning that
\* aquifers will be assigned by point-in-polygon is in warnings exactly once
\* if the wells mapping has no aquifer_id column and not at all otherwise, and
\* a result whose errors are empty is valid with the warning in it.
C24_AquiferColumnWarning ==
  (Validated /\ ReachesReferentialChecks) =>
    /\ Cardinality(AquiferColumnWarningIndexes) =
         IF MappingOf(wellsFile, "aquifer_id") = Empty THEN 1 ELSE 0
    /\ validation.errors = << >> => validation.isValid

\* the wells have no aquifer column, a row of the water levels is dropped:
\* the result carries both warnings and is valid
C24_Witness ==
  /\ Validated /\ ReachesReferentialChecks
  /\ MappingOf(wellsFile, "aquifer_id") = Empty
  /\ Cardinality(AquiferColumnWarningIndexes) = 1
  /\ validation.isValid

(***************************************************************************)
(* The interval both interpolators evaluate on.                            *)
(***************************************************************************)
Inside(x, tx) == Less(x[1], tx) /\ Less(tx, x[Len(x)])

\* the intervals with x[i] <= tx < x[i+1], and those with x[i] < tx <= x[i+1]
ClosedBelow(x, tx) == { i \in 1..(Len(x) - 1) : Leq(x[i], tx) /\ Less(tx, x[i + 1]) }
ClosedAbove(x, tx) == { i \in 1..(Len(x) - 1) : Less(x[i], tx) /\ Leq(tx, x[i + 1]) }

Largest(S) == CHOOSE i \in S : \A j \in S : j <= i

EvaluatedOn(i, tx) ==
  IF call.fn = "interpolatePCHIPMonotone" THEN hermiteOn(call.x, call.y, i, tx)
  ELSE IF Len(call.x) = 2 THEN linearAt(call.x, call.y, tx)
  ELSE splineOn(call.x, call.y, i, tx)

\* C25 as stated: for ordered samples and a target strictly between the first
\* and the last abscissa, both interpolators evaluate on the interval with
\* the largest index i such that x[i] <= target < x[i+1].
C25_IntervalClosedBelow ==
  (Interpolated /\ Len(call.x) >= 2) =>
    \A k \in DOMAIN call.targetX :
      Inside(call.x, call.targetX[k]) =>
        LET i == Largest(ClosedBelow(call.x, call.targetX[k]))
        IN  /\ findInterval(call.x, call.targetX[k]) = i
            /\ ret[1][k] = EvaluatedOn(i, call.targetX[k])

\* C25, amended: for ordered samples and a target strictly between the first
\* and the last abscissa, both interpolators evaluate on the one interval
\* with x[i] < target <= x[i+1].
C25_IntervalClosedAbove ==
  (Interpolated /\ Len(call.x) >= 2) =>
    \A k \in DOMAIN call.targetX :
      Inside(call.x, call.targetX[k]) =>
        /\ Cardinality(ClosedAbove(call.x, call.targetX[k])) = 1
        /\ LET i == Largest(ClosedAbove(call.x, call.targetX[k]))
           IN  /\ findInterval(call.x, call.targetX[k]) = i
               /\ ret[1][k] = EvaluatedOn(i, call.targetX[k])

\* x = [0, 1, 1, 3], y = [0, 1, 2, 0], target 1: the spline answers y[1] = 1,
\* the end of interval 0, not y[2] = 2, the start of interval 2
C25_Witness ==
  /\ Interpolated /\ call.fn = "interpolatePCHIP"
  /\ call.x = Nums(<< 0, 1, 1, 3 >>) /\ call.y = Nums(<< 0, 1, 2, 0 >>)
  /\ call.targetX = << Num(1) >>
  /\ ret[1] = << Num(1) >>

(***************************************************************************)
(* The worklist of calculateBounds, one action per turn of its loops.      *)
(* call holds the locals: the geometries collected, the index g of the     *)
(* next one, the stack and the running bounds b.  call.folded is a         *)
(* history of the pairs folded so far, kept to count them; the code has no *)
(* such list.                                                              *)
(***************************************************************************)
MaxDepth == 3
MaxChildren == 2

\* a value as an if-condition: undefined and 0 are falsy, arrays are truthy
TruthyValue(v) == v.k = "arr" \/ (v.k = "num" /\ v.n # 0)

\* stack.pop(): what is left
Popped(stack) == SubSeq(stack, 1, Len(stack) - 1)

\* the element that is no array stays on the stack
SkippedKept(stack) == stack

\* if (!Array.isArray(coords)) continue;  coords has been popped
Skipped(stack) == Popped(stack)

Worklist == call.fn = "worklist" /\ ~Returned

\* for (const geometry of geometries): a geometry with coordinates starts a stack
TakeGeometry ==
  /\ Worklist
  /\ call.stack = << >>
  /\ call.g <= Len(call.geometries)
  /\ TruthyValue(call.geometries[call.g].coordinates)
  /\ call' = [call EXCEPT !.stack = << call.geometries[call.g].coordinates >>,
                          !.g = @ + 1]
  /\ UNCHANGED ret
  /\ UNCHANGED wizard

\* if (!geometry.coordinates) continue;
SkipGeometry ==
  /\ Worklist
  /\ call.stack = << >>
  /\ call.g <= Len(call.geometries)
  /\ ~TruthyValue(call.geometries[call.g].coordinates)
  /\ call' = [call EXCEPT !.g = @ + 1]
  /\ UNCHANGED ret
  /\ UNCHANGED wizard

PopNonArray ==
  /\ Worklist
  /\ call.stack # << >>
  /\ call.stack[Len(call.stack)].k # "arr"
  /\ call' = [call EXCEPT !.stack = Skipped(call.stack)]
  /\ UNCHANGED ret
  /\ UNCHANGED wizard

PopPair ==
  /\ Worklist
  /\ call.stack # << >>
  /\ LET coords == call.stack[Len(call.stack)]
     IN  /\ coords.k = "arr"
         /\ IsPair(coords)
         /\ call' = [call EXCEPT
                       !.stack = Popped(call.stack),
                       !.b = FoldPair(@, coords.items[1].n, coords.items[2].n),
                       !.folded = Append(@, << coords.items[1].n, coords.items[2].n >>)]
  /\ UNCHANGED ret
  /\ UNCHANGED wizard

PopNested ==
  /\ Worklist
  /\ call.stack # << >>
  /\ LET coords == call.stack[Len(call.stack)]
     IN  /\ coords.k = "arr"
         /\ ~IsPair(coords)
         /\ call' = [call EXCEPT !.stack = Popped(call.stack) \o coords.items]
  /\ UNCHANGED ret
  /\ UNCHANGED wizard

\* return [minLat, minLng, maxLat, maxLng];
WorklistReturns ==
  /\ Worklist
  /\ call.stack = << >>
  /\ call.g > Len(call.geometries)
  /\ ret' = << << call.b.minLat, call.b.minLng, call.b.maxLat, call.b.maxLng >> >>
  /\ UNCHANGED call
  /\ UNCHANGED wizard

\* coordinate structures: numbers and undefined at the bottom, pairs and
\* triples of numbers, and arrays of up to so many children, nested so deep
NonArrays == { Number(2), Number(0), Undefined }
PairArrays ==
  { Array(<< Number(-1), Number(3) >>), Array(<< Number(2), Number(0), Number(9) >>) }

RECURSIVE Nested(_, _)
Nested(depth, children) ==
  IF depth = 0 THEN NonArrays
  ELSE LET below == Nested(depth - 1, children)
       IN  below \cup PairArrays \cup { Array(items) : items \in SeqsUpTo(below, children) }

\* every structure up to one level less, and each of them once more inside
\* an array, alone or before a pair
Structures(depth, children) ==
  LET below == Nested(depth - 1, children)
  IN  below \cup { Array(<< c >>) : c \in below }
            \cup { Array(<< c, p >>) : c \in below, p \in PairArrays }

WorklistInputs(depth, children) ==
  { << Geometry("Polygon", c) >> : c \in Structures(depth, children) }
    \cup { << Geometry("Point", c), Geometry("LineString", d) >> :
             c \in NonArrays \cup PairArrays, d \in Nested(1, children) }

WorklistInit ==
  /\ Unmounted
  /\ \E geometries \in WorklistInputs(MaxDepth, MaxChildren) :
       call = [ fn |-> "worklist", geometries |-> geometries, g |-> 1,
                stack |-> << >>, b |-> InitialBounds, folded |-> << >> ]
  /\ ret = << >>

WorklistNext ==
  \/ TakeGeometry
  \/ SkipGeometry
  \/ PopNonArray
  \/ PopPair
  \/ PopNested
  \/ WorklistReturns

\* the loops run on: no turn is put off for ever
WorklistSpec == WorklistInit /\ [][WorklistNext]_vars /\ WF_vars(WorklistNext)

\* how often the pair p occurs below a coordinates value
RECURSIVE PairOccurrences(_, _), SumOver(_, _)
PairOccurrences(c, p) ==
  IF c.k # "arr" THEN 0
  ELSE IF IsPair(c) THEN (IF << c.items[1].n, c.items[2].n >> = p THEN 1 ELSE 0)
  ELSE SumOver(c.items, p)

SumOver(items, p) ==
  IF items = << >> THEN 0
  ELSE PairOccurrences(Head(items), p) + SumOver(Tail(items), p)

GeometryOccurrences(geometries, p) ==
  SumOver([ i \in DOMAIN geometries |-> geometries[i].coordinates ], p)

FoldedTimes(p) == Cardinality({ i \in DOMAIN call.folded : call.folded[i] = p })

AllPairs ==
  UNION { PairsBelow(call.geometries[i].coordinates) : i \in DOMAIN call.geometries }

WorklistDone == call.fn = "worklist" /\ Returned

\* C26: the worklist of calculateBounds terminates on every nested
\* coordinate structure; on exit the stack is empty, every [lng, lat] pair of
\* the structure has been folded exactly once and nothing else has, so the
\* bounds are those of the pairs alone.
C26_WorklistTerminates ==
  /\ <>WorklistDone
  /\ [](WorklistDone =>
          /\ call.stack = << >>
          /\ \A p \in AllPairs \cup SeqRange(call.folded) :
               FoldedTimes(p) = GeometryOccurrences(call.geometries, p)
          /\ IF AllPairs = {}
             THEN ret[1] = << Infinity, Infinity, NegInfinity, NegInfinity >>
             ELSE ret[1] = << Finite(Least({ p[2] : p \in AllPairs })),
                              Finite(Least({ p[1] : p \in AllPairs })),
                              Finite(Greatest({ p[2] : p \in AllPairs })),
                              Finite(Greatest({ p[1] : p \in AllPairs })) >>)

\* three levels of arrays around a pair, an undefined element and the same
\* pair again: the pair was folded twice, once per occurrence
C26_Witness ==
  /\ WorklistDone
  /\ call.geometries =
       << Geometry("Polygon",
            Array(<< Array(<< Array(<< Number(-1), Number(3) >>), Undefined >>),
                     Array(<< Number(-1), Number(3) >>) >>)) >>
  /\ call.folded = << << -1, 3 >>, << -1, 3 >> >>
  /\ call.stack = << >>

(***************************************************************************)
(* A processData run against the rest of the wizard: from the wizard at    *)
(* rest on step 5, with files that differ from the ones an upload brings,  *)
(* the operator processes, goes back, renames, uploads again, edits        *)
(* mappings and picks date formats while the run is suspended.             *)
(***************************************************************************)
RunInit ==
  /\ step = 5
  /\ regionName = aRegionName
  /\ regionFile = RegionUpload
  /\ aquiferFile = AquiferUpload(OneAquifer, AquiferAuto)
  /\ wellsFile = WellsUpload(<< WellRow(<< "B" >>, << "1" >>, << "1" >>, << "X" >>) >>,
                             WellsAuto)
  /\ waterLevelsFile = LevelsUpload(<< LevelRow(<< "B" >>, aDate, aWte, << "X" >>) >>,
                                    LevelsAuto)
  /\ dateFormat = "us-short"
  /\ showColumnMapper = FALSE
  /\ currentMappingFile = "waterLevels"
  /\ validation = NoValidation
  /\ isProcessing = FALSE
  /\ zipFile = NoBundle
  /\ runs = << >>
  /\ uploads = << >>
  /\ served = << >>
  /\ existingRegions = {}
  /\ call = NoCall
  /\ ret = << >>

\* the formats and the name the operator switches to, and the kinds uploaded
\* again, while a run is under way
RunDateFormats == { "us-short", "eu-short" }
RunRegionNames == { << "a","-","b" >> }
RunFileTypes == { "wells", "waterLevels" }

RunNext ==
  \/ \E name \in RunRegionNames : SetRegionName(name)
  \/ NextStep
  \/ BackStep
  \/ \E t \in RunFileTypes : UploadStarts(t)
  \/ \E i \in 1..MaxUploads, t \in RunFileTypes :
       \E c \in UploadContents(t) : UploadSettles(i, c)
  \/ \E i \in 1..MaxUploads : UploadFails(i)
  \/ \E t \in RunFileTypes : OpenMapper(t)
  \/ CloseMapper
  \/ \E e \in MappingEdits : UpdateMapping(e[1], e[2], e[3])
  \/ \E f \in RunDateFormats : SetDateFormat(f)
  \/ ProcessData
  \/ \E i \in 1..MaxRuns, o \in FetchOutcomes : FetchSettles(i, o)
  \/ \E i \in 1..MaxRuns : ZipSettles(i)

RunSpec == RunInit /\ [][RunNext]_vars

\* what a run validated and exports
RunExports(run) ==
  [ result |-> run.result, folderName |-> run.folderName,
    regionName |-> run.regionName, region |-> run.region,
    aquifers |-> run.aquifers, wells |-> run.wells,
    water_levels |-> run.water_levels ]

\* the same, computed from the wizard's state as it is now
ExportsNow ==
  [ result |-> validateData(regionFile, aquiferFile, wellsFile, waterLevelsFile),
    folderName |-> getFolderName(regionName),
    regionName |-> regionName,
    region |-> processedRegion(regionFile, regionName),
    aquifers |-> processedAquifers(aquiferFile),
    wells |-> processedWells(wellsFile),
    water_levels |-> processedWaterLevels(waterLevelsFile,
                        ExportWellIdSet(wellsFile), dateFormat) ]

\* C27: a processData run validates and exports from the files, mappings,
\* date format and region name as they were when it started: whatever is
\* uploaded, remapped, renamed or picked while it is suspended leaves its
\* validation result and its exports as they were, and the zip it stores is
\* made of them.
C27_RunKeepsItsSnapshot ==
  [][ /\ (ProcessData /\ Len(runs') > Len(runs)) =>
           RunExports(runs'[Len(runs')]) = ExportsNow
      /\ Len(runs') = Len(runs) =>
           \A i \in DOMAIN runs : RunExports(runs'[i]) = RunExports(runs[i])
      /\ \A i \in DOMAIN runs : ZipSettles(i) =>
           /\ zipFile'.region = runs[i].region
           /\ zipFile'.aquifers = runs[i].aquifers
           /\ zipFile'.wells = runs[i].wells
           /\ zipFile'.water_levels = runs[i].water_levels
           /\ zipFile'.folder = runs[i].folderName
      /\ \A e \in MappingEdits : UpdateMapping(e[1], e[2], e[3]) =>
           /\ runs' = runs
           /\ \A t \in FileTypes \ { e[1] } : FileOf(t)' = FileOf(t)
    ]_vars

\* a run waiting for its zip while the wells were uploaded again, the date
\* format switched and the region renamed: its exports are the old ones
C27_Witness ==
  /\ runs # << >>
  /\ runs[1].pc = "zip"
  /\ runs[1].wells # processedWells(wellsFile)
  /\ runs[1].water_levels #
       processedWaterLevels(waterLevelsFile, ExportWellIdSet(wellsFile), dateFormat)
  /\ runs[1].regionName # regionName
  /\ dateFormat = "eu-short"
  /\ MappingOf(wellsFile, "aquifer_id") = Empty

\* C28: at most one processData run is in flight, and from the moment a run
\* starts until it finishes isProcessing is true and the Process button is
\* disabled, whatever uploads start or complete meanwhile.
C28_OneRunInFlight ==
  /\ Len(runs) <= 1
  /\ runs # << >> => (isProcessing /\ ~ProcessEnabled)

(***************************************************************************)
(* App: the data once loaded and the three selections.  call holds the     *)
(* state hooks of the component: regions, aquifers and wells (set once,    *)
(* after loadAllData; the DataManager never calls its onUpdate props) and  *)
(* selectedRegion, selectedAquifer, selectedWell.  Of a region, an aquifer *)
(* and a well the model keeps the identifying fields.                      *)
(***************************************************************************)
Null == [none |-> TRUE]

Region(id) == [id |-> id]
Aquifer(id, regionId) == [id |-> id, regionId |-> regionId]
Well(id, aquiferId, regionId) == [id |-> id, aquiferId |-> aquiferId, regionId |-> regionId]

\* the filter that lets every aquifer through
everyAquifer(aquifers, selectedRegion) == aquifers

\* selectedRegion ? aquifers.filter(a => a.regionId === selectedRegion.id) : []
filteredAquifers(aquifers, selectedRegion) ==
  IF selectedRegion = Null THEN << >>
  ELSE SelectSeq(aquifers, LAMBDA a : a.regionId = selectedRegion.id)

\* selectedAquifer ? wells.filter(w => w.aquiferId === selectedAquifer.id
\*                                    && w.regionId === selectedAquifer.regionId) : []
filteredWells(wells, selectedAquifer) ==
  IF selectedAquifer = Null THEN << >>
  ELSE SelectSeq(wells, LAMBDA w : /\ w.aquiferId = selectedAquifer.id
                                   /\ w.regionId = selectedAquifer.regionId)

AppShown == call.fn = "App"

\* selected?.id === item.id
IsSelected(selected, item) == selected # Null /\ selected.id = item.id

\* Sidebar, a region button: select it, or deselect it when it is the selected one
SidebarRegionClick(r) ==
  /\ AppShown
  /\ r \in SeqRange(call.regions)
  /\ call' = [call EXCEPT
                !.selectedRegion = IF IsSelected(call.selectedRegion, r) THEN Null ELSE r,
                !.selectedAquifer = Null,
                !.selectedWell = Null]
  /\ UNCHANGED ret
  /\ UNCHANGED wizard

\* Sidebar, an aquifer button (the list is rendered when a region is selected)
SidebarAquiferClick(a) ==
  /\ AppShown
  /\ call.selectedRegion # Null
  /\ a \in SeqRange(filteredAquifers(call.aquifers, call.selectedRegion))
  /\ call' = [call EXCEPT
                !.selectedAquifer = IF IsSelected(call.selectedAquifer, a) THEN Null ELSE a,
                !.selectedWell = Null]
  /\ UNCHANGED ret
  /\ UNCHANGED wizard

\* breadcrumb: Groundwater Explorer
BreadcrumbHomeClick ==
  /\ AppShown
  /\ call' = [call EXCEPT !.selectedRegion = Null, !.selectedAquifer = Null,
                          !.selectedWell = Null]
  /\ UNCHANGED ret
  /\ UNCHANGED wizard

\* breadcrumb: the name of the selected region
BreadcrumbRegionClick ==
  /\ AppShown
  /\ call.selectedRegion # Null
  /\ call' = [call EXCEPT !.selectedAquifer = Null, !.selectedWell = Null]
  /\ UNCHANGED ret
  /\ UNCHANGED wizard

\* breadcrumb: the name of the selected aquifer
BreadcrumbAquiferClick ==
  /\ AppShown
  /\ call.selectedAquifer # Null
  /\ call' = [call EXCEPT !.selectedWell = Null]
  /\ UNCHANGED ret
  /\ UNCHANGED wizard

\* MapView, a region polygon: onRegionClick
MapRegionClick(r) ==
  /\ AppShown
  /\ r \in SeqRange(call.regions)
  /\ call' = [call EXCEPT !.selectedRegion = r, !.selectedAquifer = Null,
                          !.selectedWell = Null]
  /\ UNCHANGED ret
  /\ UNCHANGED wizard

\* MapView, an aquifer polygon (drawn for the aquifers of the selected
\* region): onAquiferClick={setSelectedAquifer}
MapAquiferClick(a) ==
  /\ AppShown
  /\ call.selectedRegion # Null
  /\ a \in SeqRange(filteredAquifers(call.aquifers, call.selectedRegion))
  /\ call' = [call EXCEPT !.selectedAquifer = a]
  /\ UNCHANGED ret
  /\ UNCHANGED wizard

\* MapView, a well marker (drawn for the wells of the selected aquifer):
\* onWellClick={setSelectedWell}
MapWellClick(w) ==
  /\ AppShown
  /\ call.selectedAquifer # Null
  /\ w \in SeqRange(filteredWells(call.wells, call.selectedAquifer))
  /\ call' = [call EXCEPT !.selectedWell = w]
  /\ UNCHANGED ret
  /\ UNCHANGED wizard

\* the data: two regions; aquifers a and b, the id a in both regions, and an
\* aquifer of a region that did not load; wells of each
MaxLoadedAquifers == 3
MaxLoadedWells == 2

LoadedRegions == << Region("r"), Region("s") >>
AquiferPool ==
  { Aquifer("a", "r"), Aquifer("b", "r"), Aquifer("a", "s"), Aquifer("c", "t") }
WellPool ==
  { Well("1", "a", "r"), Well("2", "b", "r"), Well("3", "a", "s"), Well("4", "", "r") }

\* the lists of distinct members of a set, up to a length
DistinctSeqs(S, n) ==
  { q \in SeqsUpTo(S, n) : \A i, j \in DOMAIN q : q[i] = q[j] => i = j }

AppInit ==
  /\ Unmounted
  /\ \E aquifers \in DistinctSeqs(AquiferPool, MaxLoadedAquifers),
        wells \in DistinctSeqs(WellPool, MaxLoadedWells) :
       call = [ fn |-> "App", regions |-> LoadedRegions, aquifers |-> aquifers,
                wells |-> wells, selectedRegion |-> Null, selectedAquifer |-> Null,
                selectedWell |-> Null ]
  /\ ret = << >>

AppNext ==
  \/ \E r \in SeqRange(LoadedRegions) : SidebarRegionClick(r)
  \/ \E a \in AquiferPool : SidebarAquiferClick(a)
  \/ BreadcrumbHomeClick
  \/ BreadcrumbRegionClick
  \/ BreadcrumbAquiferClick
  \/ \E r \in SeqRange(LoadedRegions) : MapRegionClick(r)
  \/ \E a \in AquiferPool : MapAquiferClick(a)
  \/ \E w \in WellPool : MapWellClick(w)

AppSpec == AppInit /\ [][AppNext]_vars

\* C29: a selected well implies a selected aquifer the well belongs to (same
\* aquifer id, same region); no change of the selected aquifer leaves a well
\* of the previous aquifer selected.
C29_WellBelongsToAquifer ==
  AppShown =>
    (call.selectedWell # Null =>
       /\ call.selectedAquifer # Null
       /\ call.selectedWell.aquiferId = call.selectedAquifer.id
       /\ call.selectedWell.regionId = call.selectedAquifer.regionId)

RegionAction ==
  \/ \E r \in SeqRange(LoadedRegions) : SidebarRegionClick(r)
  \/ BreadcrumbHomeClick
  \/ \E r \in SeqRange(LoadedRegions) : MapRegionClick(r)

\* C30: a selected aquifer implies a selected region with
\* selectedAquifer.regionId = selectedRegion.id, and every action that
\* selects, changes or clears the region leaves no aquifer and no well
\* selected.
C30_AquiferBelongsToRegion ==
  /\ [](AppShown =>
          (call.selectedAquifer # Null =>
             /\ call.selectedRegion # Null
             /\ call.selectedAquifer.regionId = call.selectedRegion.id))
  /\ [][ (AppShown /\ (RegionAction \/ call.selectedRegion' # call.selectedRegion)) =>
           (call.selectedAquifer' = Null /\ call.selectedWell' = Null) ]_vars

\* region s, its aquifer a and the well of that aquifer are selected, in
\* data where region r has an aquifer a as well
C30_Witness ==
  /\ AppShown
  /\ call.selectedRegion = Region("s")
  /\ call.selectedAquifer = Aquifer("a", "s")
  /\ call.selectedWell = Well("3", "a", "s")
  /\ Aquifer("a", "r") \in SeqRange(call.aquifers)

=============================================================================
